---------------------------- MODULE Spec2Model ----------------------------
(***************************************************************************)
(* A model of the CSV-to-PostgreSQL loader (scripts/load_filtered_csvs.py) *)
(* and of the pgvector ingest path (scripts/pgvector_ingest_and_query.py). *)
(*                                                                         *)
(* Text is modelled as a sequence of one-character strings, so that        *)
(* strip(), isdigit(), int() and the filename tests are computed, not      *)
(* assumed.  The PostgreSQL store is modelled by its committed state `db`, *)
(* the open transaction's working state `tx` and the "transaction is       *)
(* aborted" flag `txAborted`.                                              *)
(***************************************************************************)
EXTENDS Integers, Sequences, FiniteSets, TLC

VARIABLES
    src,                  \* the CSV directory: [exists, files]
    env,                  \* the run's environment: [model, embedOk, indexOk]
    db,                   \* the committed store
    tx,                   \* the open transaction's view of the store
    txAborted,            \* the server has put the transaction in the aborted state
    pc,                   \* position in main()
    run,                  \* number of the current run of main()
    dbBefore,             \* the committed store when the current run started
    err,                  \* the exception that ended the run ("" if none)
    indexWarned,          \* line 615's warning was printed in this run
    discovered,           \* discover_csv_files' result
    fi,                   \* index of the current file of the current loader
    ri,                   \* index of the next row of the current file
    rows,                 \* the loader's `rows` list
    texts_for_embedding,  \* load_licitacion's list of combined texts
    seen_ids,             \* load_licitacion's set of raw identifiers
    valid_conv,           \* load_ayuda's snapshot of CONVOCATORIA_AYUDA keys
    cnt,                  \* the loaders' counters
    model,                \* load_licitacion's `model` (TRUE: loaded)
    ing,                  \* pgvector_ingest_and_query.ingest_csv's locals
    qry,                  \* the last run of query_documents: its arguments and output
    co,                   \* the last call of a coercion function: [fn, arg, out]
    lit                   \* the last call of to_pgvector_literal: [pc, vec, text, parsed]

vars == <<src, env, db, tx, txAborted, pc, run, dbBefore, err, indexWarned,
          discovered, fi, ri, rows, texts_for_embedding, seen_ids, valid_conv,
          cnt, model, ing, qry, co, lit>>

---------------------------------------------------------------------------
(* Bounds of the model *)

\* main() is run at most this many times in succession
MaxRuns == 2
\* most source rows in the tender files of one directory
MaxLicRows == 3
\* most source rows in the grant-award files of one directory
MaxAyudaRows == 2
\* most source rows in the grant-call files of one directory
MaxConvRows == 2
\* most rows of a CSV file given to `ingest`
MaxIngestRows == 2
\* `ingest` is run at most this many times in succession
MaxIngests == 2
\* largest --k a query is run with
MaxK == 2
\* longest string of digits and decimal markers given to to_decimal and to_int
MaxNumLen == 3

---------------------------------------------------------------------------
(* Text *)

Digits == {"0", "1", "2", "3", "4", "5", "6", "7", "8", "9"}

\* characters for which str.isdigit() holds but int() raises ValueError
SuperDigits == {"^2"}

Whitespace == {" ", "\t", "\n"}

DigitVal(c) ==
    CASE c = "0" -> 0 [] c = "1" -> 1 [] c = "2" -> 2 [] c = "3" -> 3
      [] c = "4" -> 4 [] c = "5" -> 5 [] c = "6" -> 6 [] c = "7" -> 7
      [] c = "8" -> 8 [] c = "9" -> 9

RECURSIVE LStrip(_)
LStrip(s) ==
    IF s # <<>> /\ Head(s) \in Whitespace THEN LStrip(Tail(s)) ELSE s

RECURSIVE RStrip(_)
RStrip(s) ==
    IF s # <<>> /\ s[Len(s)] \in Whitespace
    THEN RStrip(SubSeq(s, 1, Len(s) - 1))
    ELSE s

\* str.strip()
Strip(s) == RStrip(LStrip(s))

\* str.isdigit(): non-empty and every character a digit
IsDigit(s) == s # <<>> /\ \A i \in 1..Len(s) : s[i] \in Digits \cup SuperDigits

\* "".join(ch for ch in s if ch.isdigit())
RECURSIVE OnlyDigits(_)
OnlyDigits(s) ==
    IF s = <<>> THEN <<>>
    ELSE IF Head(s) \in Digits \cup SuperDigits
         THEN <<Head(s)>> \o OnlyDigits(Tail(s))
         ELSE OnlyDigits(Tail(s))

\* int(s) of a string of decimal digits
RECURSIVE IntOf(_)
IntOf(s) ==
    IF s = <<>> THEN 0
    ELSE 10 * IntOf(SubSeq(s, 1, Len(s) - 1)) + DigitVal(s[Len(s)])

\* int(s) succeeds: s is non-empty and holds decimal digits only
IntParses(s) == s # <<>> /\ \A i \in 1..Len(s) : s[i] \in Digits

\* an optional integer: None, or a value
NoInt == [isNull |-> TRUE, v |-> 0]
SomeInt(n) == [isNull |-> FALSE, v |-> n]

\* to_int's outcome: [raises, val]
to_int(s) ==
    LET t == Strip(s) IN
    IF t = <<>> \/ ~IsDigit(t)
    THEN \* int("".join(digits)) inside try/except Exception -> None
         IF IntParses(OnlyDigits(t))
         THEN [raises |-> FALSE, val |-> SomeInt(IntOf(OnlyDigits(t)))]
         ELSE [raises |-> FALSE, val |-> NoInt]
    ELSE \* return int(s), outside the try
         IF IntParses(t)
         THEN [raises |-> FALSE, val |-> SomeInt(IntOf(t))]
         ELSE [raises |-> TRUE, val |-> NoInt]

---------------------------------------------------------------------------
(* Program constants *)

UAM_COD == <<"0", "2", "3">>
UAM_NIF == <<"Q", "2", "8", "1", "8", "0", "1", "3", "A">>

\* the width of LICITACION.embedding in DDL_SQL
DDL_DIM == 384
\* the output width of the sentence-transformers model 'all-MiniLM-L6-v2'
MODEL_DIM == 384
\* ensure_table reads the column's width as atttypmod - 4
TYPMOD_OFFSET == 4

---------------------------------------------------------------------------
(* Source discovery: discover_csv_files *)

Uppers == <<"A", "B", "C", "D", "E", "F", "G", "H", "I", "J", "K", "L", "M",
            "N", "O", "P", "Q", "R", "S", "T", "U", "V", "W", "X", "Y", "Z">>
Lowers == <<"a", "b", "c", "d", "e", "f", "g", "h", "i", "j", "k", "l", "m",
            "n", "o", "p", "q", "r", "s", "t", "u", "v", "w", "x", "y", "z">>

\* the characters of file names, in code-point order
Alphabet == <<"-", ".">> \o <<"0", "1", "2", "3", "4", "5", "6", "7", "8", "9">>
            \o Uppers \o <<"_">> \o Lowers

Ord(c) == CHOOSE i \in 1..Len(Alphabet) : Alphabet[i] = c

LowerChar(c) ==
    IF \E i \in 1..Len(Uppers) : Uppers[i] = c
    THEN Lowers[CHOOSE i \in 1..Len(Uppers) : Uppers[i] = c]
    ELSE c

\* str.lower()
Lower(s) == [i \in 1..Len(s) |-> LowerChar(s[i])]

\* sub in s
Contains(s, sub) ==
    \E i \in 0..(Len(s) - Len(sub)) : SubSeq(s, i + 1, i + Len(sub)) = sub

\* s.endswith(suf)
EndsWith(s, suf) ==
    Len(s) >= Len(suf) /\ SubSeq(s, Len(s) - Len(suf) + 1, Len(s)) = suf

\* s < t, as Python compares str
RECURSIVE StrLess(_, _)
StrLess(s, t) ==
    IF t = <<>> THEN FALSE
    ELSE IF s = <<>> THEN TRUE
    ELSE IF Head(s) = Head(t) THEN StrLess(Tail(s), Tail(t))
    ELSE Ord(Head(s)) < Ord(Head(t))

\* the file names of the modelled directories
F_GASTOS == "presupuesto-de-gastos.csv"
F_INGRESOS == "presupuesto_de_ingresos.csv"
F_CONV_1 == "Conv-Ayudas.csv"
F_CONV_2 == "conv_ayudas.csv"
F_AYUDAS_1 == "ayudas.csv"
F_AYUDAS_2 == "ayudas2.csv"
F_LIC_1 == "contratos-mayores.csv"
F_LIC_2 == "licitaciones.csv"
F_NOTES == "notas.txt"
F_AYUDAS_CONV == "Ayudas_Conv.csv"
F_CONVOCATORIAS == "convocatorias-ayudas.csv"

\* the characters of a file name
Chars(name) ==
    CASE name = F_GASTOS -> <<"p","r","e","s","u","p","u","e","s","t","o","-","d","e","-","g","a","s","t","o","s",".","c","s","v">>
      [] name = F_INGRESOS -> <<"p","r","e","s","u","p","u","e","s","t","o","_","d","e","_","i","n","g","r","e","s","o","s",".","c","s","v">>
      [] name = F_CONV_1 -> <<"C","o","n","v","-","A","y","u","d","a","s",".","c","s","v">>
      [] name = F_CONV_2 -> <<"c","o","n","v","_","a","y","u","d","a","s",".","c","s","v">>
      [] name = F_AYUDAS_1 -> <<"a","y","u","d","a","s",".","c","s","v">>
      [] name = F_AYUDAS_2 -> <<"a","y","u","d","a","s","2",".","c","s","v">>
      [] name = F_LIC_1 -> <<"c","o","n","t","r","a","t","o","s","-","m","a","y","o","r","e","s",".","c","s","v">>
      [] name = F_LIC_2 -> <<"l","i","c","i","t","a","c","i","o","n","e","s",".","c","s","v">>
      [] name = F_NOTES -> <<"n","o","t","a","s",".","t","x","t">>
      [] name = F_AYUDAS_CONV -> <<"A","y","u","d","a","s","_","C","o","n","v",".","c","s","v">>
      [] name = F_CONVOCATORIAS -> <<"c","o","n","v","o","c","a","t","o","r","i","a","s","-","a","y","u","d","a","s",".","c","s","v">>

\* a list of the names of S left in an order os.listdir may give them in, the
\* greatest first
RECURSIVE Sorted_ListingOrder(_)
Sorted_ListingOrder(S) ==
    IF S = {} THEN <<>>
    ELSE LET m == CHOOSE x \in S : \A y \in S \ {x} : StrLess(Chars(y), Chars(x))
         IN  <<m>> \o Sorted_ListingOrder(S \ {m})

\* list.sort() of a list holding the names of S
RECURSIVE Sorted(_)
Sorted(S) ==
    IF S = {} THEN <<>>
    ELSE LET m == CHOOSE x \in S : \A y \in S \ {x} : StrLess(Chars(x), Chars(y))
         IN  <<m>> \o Sorted(S \ {m})

P_GASTOS_1 == <<"p","r","e","s","u","p","u","e","s","t","o","-","d","e","-","g","a","s","t","o","s">>
P_GASTOS_2 == <<"p","r","e","s","u","p","u","e","s","t","o","_","d","e","_","g","a","s","t","o","s">>
P_INGRESOS_1 == <<"p","r","e","s","u","p","u","e","s","t","o","-","d","e","-","i","n","g","r","e","s","o","s">>
P_INGRESOS_2 == <<"p","r","e","s","u","p","u","e","s","t","o","_","d","e","_","i","n","g","r","e","s","o","s">>
P_CONV_1 == <<"c","o","n","v","-","a","y","u","d","a","s">>
P_CONV_2 == <<"c","o","n","v","_","a","y","u","d","a","s">>
P_AYUDAS == <<"a","y","u","d","a","s">>
P_CONV == <<"c","o","n","v">>
P_LICITACIONES == <<"l","i","c","i","t","a","c","i","o","n","e","s">>
P_CONTRATOS == <<"c","o","n","t","r","a","t","o","s","-","m","a","y","o","r","e","s">>
EXT_CSV == <<".", "c", "s", "v">>

\* the category of one file name (lines 210-220), "" when none matches
Category(name) ==
    LET fname == Lower(Chars(name)) IN
    IF Contains(fname, P_GASTOS_1) \/ Contains(fname, P_GASTOS_2) THEN "gastos"
    ELSE IF Contains(fname, P_INGRESOS_1) \/ Contains(fname, P_INGRESOS_2)
         THEN "ingresos"
    ELSE IF Contains(fname, P_CONV_1) \/ Contains(fname, P_CONV_2)
         THEN "convocatorias"
    ELSE IF Contains(fname, P_AYUDAS) /\ ~Contains(fname, P_CONV) THEN "ayudas"
    ELSE IF Contains(fname, P_LICITACIONES) \/ Contains(fname, P_CONTRATOS)
         THEN "licitaciones"
    ELSE ""

\* all_files: the names of the directory that end in ".csv"
CsvNames(dir) == {f.name : f \in {g \in dir.files : EndsWith(Chars(g.name), EXT_CSV)}}

NamesOf(dir, cat) == Sorted({n \in CsvNames(dir) : Category(n) = cat})

\* os.path.isdir(csv_dir_abs) in a file system where every path is a directory
IsDir_Always(dir) == TRUE

\* line 191: os.path.isdir(csv_dir_abs)
IsDir(dir) == dir.exists

discover_csv_files(dir) ==
    [gastos        |-> NamesOf(dir, "gastos"),
     ingresos      |-> NamesOf(dir, "ingresos"),
     convocatorias |-> NamesOf(dir, "convocatorias"),
     ayudas        |-> NamesOf(dir, "ayudas"),
     licitaciones  |-> NamesOf(dir, "licitaciones")]

NoneDiscovered ==
    [gastos |-> <<>>, ingresos |-> <<>>, convocatorias |-> <<>>,
     ayudas |-> <<>>, licitaciones |-> <<>>]

\* main() without the test of lines 663-667
TotalFiles_Unchecked(d) == 1

\* total_files of main()
TotalFiles(d) ==
    Len(d.gastos) + Len(d.ingresos) + Len(d.convocatorias) + Len(d.ayudas)
      + Len(d.licitaciones)

\* the rows csv.DictReader yields for the file called name
RowsOf(name) == (CHOOSE f \in src.files : f.name = name).rows

\* encodings of csv_open_reader, in the order it tries them
ENCODINGS == <<"utf-8-sig", "utf-8", "latin1">>

\* reading the whole file under enc meets no UnicodeDecodeError
Decodes(name, enc) ==
    enc = "latin1" \/ (CHOOSE f \in src.files : f.name = name).utf8

\* `with csv_open_reader(path) as reader: for r in reader: ...` as the loaders
\* use it.  open() and csv.DictReader() decode nothing, so a decode error is
\* raised by the loader's row loop, inside the with block, and is thrown into
\* the generator at its yield (line 156).  The except clause (158) catches it
\* and the for loop goes on to the next encoding, where the generator yields a
\* second time: contextlib answers a generator that yields after throw() with
\* RuntimeError("generator didn't stop after throw()"), which no one catches.
csv_open_reader(name) ==
    IF Decodes(name, ENCODINGS[1])
    THEN [raises |-> "", rows |-> RowsOf(name)]
    ELSE [raises |-> "RuntimeError", rows |-> <<>>]

---------------------------------------------------------------------------
(* The store: PostgreSQL tables, DDL and INSERT *)

TableNames == {"UNIVERSIDAD", "PRESUPUESTO_GASTOS", "PRESUPUESTO_INGRESOS",
               "LICITACION", "CONVOCATORIA_AYUDA", "AYUDA"}

\* a table that does not exist
\* refs: the tables its REFERENCES name; pk: its key column is a PRIMARY KEY;
\* width: the width of its vector column (0: no such column); index: the
\* similarity index exists
NoTable == [exists |-> FALSE, refs |-> {}, pk |-> FALSE, width |-> 0,
            index |-> FALSE, rows |-> <<>>]

\* a store with no table
EmptyStore == [t \in TableNames |-> NoTable]

\* SQL NULL in a text column
NULL_TEXT == <<"\\N">>

\* an embedding value: NULL, or the vector of `dim` floats computed from `of`
NoEmbedding == [isNull |-> TRUE, dim |-> 0, of |-> <<>>]
Embedding(d, text) == [isNull |-> FALSE, dim |-> d, of |-> text]

\* the DROP TABLE statements of DDL_SQL with UNIVERSIDAD dropped first
DDL_DROPS_ParentFirst ==
    <<"UNIVERSIDAD", "AYUDA", "CONVOCATORIA_AYUDA", "LICITACION",
      "PRESUPUESTO_GASTOS", "PRESUPUESTO_INGRESOS">>

\* the DROP TABLE IF EXISTS statements of DDL_SQL, in order
DDL_DROPS == <<"AYUDA", "CONVOCATORIA_AYUDA", "LICITACION",
               "PRESUPUESTO_GASTOS", "PRESUPUESTO_INGRESOS", "UNIVERSIDAD">>

\* DDL_SQL with LICITACION.identificador not declared PRIMARY KEY
DDL_CREATES_NoTenderKey ==
    << [name |-> "UNIVERSIDAD", refs |-> {}, pk |-> TRUE, width |-> 0],
       [name |-> "PRESUPUESTO_GASTOS", refs |-> {"UNIVERSIDAD"}, pk |-> TRUE,
        width |-> 0],
       [name |-> "PRESUPUESTO_INGRESOS", refs |-> {"UNIVERSIDAD"}, pk |-> TRUE,
        width |-> 0],
       [name |-> "LICITACION", refs |-> {"UNIVERSIDAD"}, pk |-> FALSE,
        width |-> DDL_DIM],
       [name |-> "CONVOCATORIA_AYUDA", refs |-> {"UNIVERSIDAD"}, pk |-> TRUE,
        width |-> 0],
       [name |-> "AYUDA", refs |-> {"UNIVERSIDAD", "CONVOCATORIA_AYUDA"},
        pk |-> TRUE, width |-> 0] >>

\* the CREATE TABLE statements of DDL_SQL, in order: name, REFERENCES, primary
\* key, vector width
DDL_CREATES ==
    << [name |-> "UNIVERSIDAD", refs |-> {}, pk |-> TRUE, width |-> 0],
       [name |-> "PRESUPUESTO_GASTOS", refs |-> {"UNIVERSIDAD"}, pk |-> TRUE,
        width |-> 0],
       [name |-> "PRESUPUESTO_INGRESOS", refs |-> {"UNIVERSIDAD"}, pk |-> TRUE,
        width |-> 0],
       [name |-> "LICITACION", refs |-> {"UNIVERSIDAD"}, pk |-> TRUE,
        width |-> DDL_DIM],
       [name |-> "CONVOCATORIA_AYUDA", refs |-> {"UNIVERSIDAD"}, pk |-> TRUE,
        width |-> 0],
       [name |-> "AYUDA", refs |-> {"UNIVERSIDAD", "CONVOCATORIA_AYUDA"},
        pk |-> TRUE, width |-> 0] >>

\* a statement's outcome: the store after it, or the error it raised
Ok(store) == [ok |-> TRUE, store |-> store, err |-> ""]
Fail(store, e) == [ok |-> FALSE, store |-> store, err |-> e]

\* DROP TABLE IF EXISTS t: refused while another table references t
DropTable(store, t) ==
    IF ~store[t].exists THEN Ok(store)
    ELSE IF \E u \in TableNames \ {t} : store[u].exists /\ t \in store[u].refs
         THEN Fail(store, "DependentObjectsStillExist")
    ELSE Ok([store EXCEPT ![t] = NoTable])

\* CREATE TABLE c.name: refused when it exists or a referenced table does not
CreateTable(store, c) ==
    IF store[c.name].exists THEN Fail(store, "DuplicateTable")
    ELSE IF \E r \in c.refs : ~store[r].exists THEN Fail(store, "UndefinedTable")
    ELSE Ok([store EXCEPT ![c.name] =
                [exists |-> TRUE, refs |-> c.refs, pk |-> c.pk,
                 width |-> c.width, index |-> FALSE, rows |-> <<>>]])

RECURSIVE DropAll(_, _)
DropAll(store, ts) ==
    IF ts = <<>> THEN Ok(store)
    ELSE LET r == DropTable(store, Head(ts))
         IN  IF r.ok THEN DropAll(r.store, Tail(ts)) ELSE r

RECURSIVE CreateAll(_, _)
CreateAll(store, cs) ==
    IF cs = <<>> THEN Ok(store)
    ELSE LET r == CreateTable(store, Head(cs))
         IN  IF r.ok THEN CreateAll(r.store, Tail(cs)) ELSE r

\* a DDL that drops only UNIVERSIDAD, with CASCADE, and creates the other
\* tables IF NOT EXISTS: the fact tables outlive the run
create_tables_cascade(store) ==
    [t \in TableNames |->
        IF store[t].exists /\ t # "UNIVERSIDAD"
        THEN store[t]
        ELSE LET c == CHOOSE x \in {DDL_CREATES[i] : i \in 1..Len(DDL_CREATES)} :
                         x.name = t
             IN  [exists |-> TRUE, refs |-> c.refs, pk |-> c.pk, width |-> c.width,
                  index |-> FALSE, rows |-> <<>>]]

create_tables_keeping_rows(store) == Ok(create_tables_cascade(store))

\* create_tables: CREATE EXTENSION, then DDL_SQL
create_tables(store) ==
    LET d == DropAll(store, DDL_DROPS)
    IN  IF d.ok THEN CreateAll(d.store, DDL_CREATES) ELSE d

\* the values of column f in the rows of a table
Col(table, f) == {table.rows[i][f] : i \in 1..Len(table.rows)}

\* the row collides with a stored row on the table's primary key or on a
\* UNIQUE column
Conflict(store, t, row) ==
    CASE t = "UNIVERSIDAD" ->
            row.cod \in Col(store[t], "cod") \/ row.nifoc \in Col(store[t], "nifoc")
      [] t = "CONVOCATORIA_AYUDA" -> row.code \in Col(store[t], "code")
      [] t = "LICITACION" ->
            store[t].pk /\ ~row.id.isNull /\ row.id \in Col(store[t], "id")
      [] OTHER -> FALSE

\* the error one row without such a collision raises on INSERT into table t,
\* "" if none
RowError(store, t, row) ==
    CASE t = "UNIVERSIDAD" -> ""
      [] t \in {"PRESUPUESTO_GASTOS", "PRESUPUESTO_INGRESOS", "CONVOCATORIA_AYUDA"} ->
            IF "UNIVERSIDAD" \in store[t].refs
               /\ row.cod \notin Col(store["UNIVERSIDAD"], "cod")
            THEN "ForeignKeyViolation(cod_universidad)" ELSE ""
      [] t = "AYUDA" ->
            IF "UNIVERSIDAD" \in store[t].refs
               /\ row.cod \notin Col(store["UNIVERSIDAD"], "cod")
            THEN "ForeignKeyViolation(cod_universidad)"
            ELSE IF "CONVOCATORIA_AYUDA" \in store[t].refs
                    /\ row.conv \notin Col(store["CONVOCATORIA_AYUDA"], "code")
                 THEN "ForeignKeyViolation(cod_convocatoria_ayuda)" ELSE ""
      [] t = "LICITACION" ->
            IF ~row.embedding.isNull /\ store[t].width = 0
            THEN "UndefinedColumn(embedding)"
            ELSE IF ~row.embedding.isNull /\ row.embedding.dim # store[t].width
            THEN "DataException(vector dimensions)"
            ELSE IF store[t].pk /\ row.id.isNull
            THEN "NotNullViolation(identificador)"
            ELSE IF "UNIVERSIDAD" \in store[t].refs /\ row.nif # NULL_TEXT
                    /\ row.nif \notin Col(store["UNIVERSIDAD"], "nifoc")
                 THEN "ForeignKeyViolation(nif_oc)" ELSE ""

\* INSERT INTO t VALUES rs [ON CONFLICT DO NOTHING]: all rows or an error
RECURSIVE Insert(_, _, _, _)
Insert(store, t, rs, onConflictDoNothing) ==
    IF ~store[t].exists THEN Fail(store, "UndefinedTable")
    ELSE IF rs = <<>> THEN Ok(store)
    ELSE IF Conflict(store, t, Head(rs))
         THEN IF onConflictDoNothing
              THEN Insert(store, t, Tail(rs), onConflictDoNothing)
              ELSE Fail(store, "UniqueViolation")
    ELSE IF RowError(store, t, Head(rs)) # ""
         THEN Fail(store, RowError(store, t, Head(rs)))
    ELSE Insert([store EXCEPT ![t].rows = Append(@, Head(rs))],
                t, Tail(rs), onConflictDoNothing)

\* one INSERT statement: its rows are all stored, or none is
InsertStmt(store, t, rs, onConflictDoNothing) ==
    LET r == Insert(store, t, rs, onConflictDoNothing)
    IN  IF r.ok THEN r ELSE Fail(store, r.err)

\* the row seed_universidad inserts
SeedRow == [cod |-> UAM_COD, nifoc |-> UAM_NIF]

seed_universidad(store) == Insert(store, "UNIVERSIDAD", <<SeedRow>>, FALSE)

---------------------------------------------------------------------------
(* main() of load_filtered_csvs.py and its loaders *)

\* conn.autocommit left at True
AutocommitOn == TRUE

\* conn.autocommit, as connect_db sets it
Autocommit == FALSE

\* the committed store after a statement that left the transaction at txv
Committed(dbv, txv) == IF Autocommit THEN txv ELSE dbv

\* a statement in the open transaction: refused once the transaction is aborted
Exec(r) == IF txAborted THEN Fail(tx, "InFailedSqlTransaction") ELSE r

ZeroCnt ==
    [kept |-> 0, skipped_empty |-> 0, skipped_missing_fk |-> 0,
     skipped_dups |-> 0, skipped_nif |-> 0,
     total_kept |-> 0, total_skipped_empty |-> 0, total_skipped_missing_fk |-> 0,
     total_skipped_dups |-> 0, total_skipped_nif |-> 0]

\* main() calling load_ayuda before load_convocatoria
Stages_AwardsBeforeCalls ==
    <<"gastos", "ingresos", "ayudas", "convocatorias", "licitaciones">>

\* the loaders main() calls, in order, with the key of their files
Stages == <<"gastos", "ingresos", "convocatorias", "ayudas", "licitaciones">>

StageIndex(p) == CHOOSE i \in 1..Len(Stages) : Stages[i] = p

\* the next loader after stage number i whose file list is not empty
RECURSIVE StageAfter(_, _)
StageAfter(d, i) ==
    IF i >= Len(Stages) THEN "commit"
    ELSE IF d[Stages[i + 1]] # <<>> THEN Stages[i + 1]
    ELSE StageAfter(d, i + 1)

\* s.strip('"')
RECURSIVE StripQuotes(_)
StripQuotes(s) ==
    IF s # <<>> /\ Head(s) = "\"" THEN StripQuotes(Tail(s))
    ELSE IF s # <<>> /\ s[Len(s)] = "\"" THEN StripQuotes(SubSeq(s, 1, Len(s) - 1))
    ELSE s

\* cod_univ of a source row: stripped, unquoted, "23" normalised to UAM_COD
CodUniv(r) ==
    LET c == StripQuotes(Strip(r.cod))
    IN  IF c = <<"2", "3">> THEN UAM_COD ELSE c

\* the tuple load_gastos / load_ingresos builds from a source row
BudgetTuple(r) == [cod |-> CodUniv(r), anio |-> to_int(r.anio).val]

\* the tuple load_convocatoria builds from a source row
ConvTuple(r) ==
    [code |-> Strip(r.conv), cod |-> CodUniv(r), nombre |-> Strip(r.nombre)]

\* the tuple load_ayuda builds from a kept source row
AyudaTuple(r) == [cod |-> CodUniv(r), conv |-> Strip(r.conv)]

\* combined_text of load_licitacion
CombinedText(objeto, descripcion) ==
    IF objeto # <<>> \/ descripcion # <<>>
    THEN Strip(objeto \o <<"\n">> \o descripcion)
    ELSE <<>>

\* the tuple load_licitacion builds from a kept source row, before the embedding
LicTuple(r) ==
    [id |-> to_int(r.ident).val, nif |-> Strip(r.nif),
     objeto |-> Strip(r.objeto), descripcion |-> Strip(r.descripcion)]

\* some to_int call made for the rows rs raises
AnioRaises(rs) == \E i \in 1..Len(rs) : to_int(rs[i].anio).raises

\* compute_transformer_embeddings, or [] when the call raises
Embeddings(texts) ==
    IF model /\ texts # <<>>
    THEN IF env.embedOk
         THEN [i \in 1..Len(texts) |-> Embedding(MODEL_DIM, texts[i])]
         ELSE <<>>
    ELSE <<>>

\* rows_with_embeddings holding only the rows that got an embedding
RowsWithEmbeddings_OnlyEmbedded(rs, embeddings) ==
    [i \in 1..(IF Len(embeddings) < Len(rs) THEN Len(embeddings) ELSE Len(rs)) |->
        [id |-> rs[i].id, nif |-> rs[i].nif, objeto |-> rs[i].objeto,
         descripcion |-> rs[i].descripcion, embedding |-> embeddings[i]]]

\* rows_with_embeddings pairing row i with the embedding counted from the end
RowsWithEmbeddings_Reversed(rs, embeddings) ==
    [i \in 1..Len(rs) |->
        [id |-> rs[i].id, nif |-> rs[i].nif, objeto |-> rs[i].objeto,
         descripcion |-> rs[i].descripcion,
         embedding |-> IF embeddings # <<>> /\ i <= Len(embeddings)
                       THEN embeddings[Len(embeddings) + 1 - i] ELSE NoEmbedding]]

\* rows_with_embeddings
RowsWithEmbeddings(rs, embeddings) ==
    [i \in 1..Len(rs) |->
        [id |-> rs[i].id, nif |-> rs[i].nif, objeto |-> rs[i].objeto,
         descripcion |-> rs[i].descripcion,
         embedding |-> IF embeddings # <<>> /\ i <= Len(embeddings)
                       THEN embeddings[i] ELSE NoEmbedding]]

Locals == <<fi, ri, rows, texts_for_embedding, seen_ids, valid_conv, cnt, model>>
Inputs == <<src, env, ing, qry, co, lit>>

\* except Exception: conn.rollback(); raise
Raise(e) ==
    /\ pc' = "failed"
    /\ err' = e
    /\ tx' = db
    /\ db' = db

\* lines 651-667: discovery, and exit when nothing was found
Discover ==
    /\ pc = "main"
    /\ LET d == discover_csv_files(src)
       IN  IF ~IsDir(src)
           THEN /\ pc' = "exit"
                /\ err' = "SystemExit(discover_csv_files)"
                /\ UNCHANGED discovered
           ELSE IF TotalFiles(d) = 0
           THEN /\ pc' = "exit"
                /\ err' = "SystemExit(main)"
                /\ UNCHANGED discovered
           ELSE /\ pc' = "create"
                /\ discovered' = d
                /\ UNCHANGED err
    /\ UNCHANGED <<db, tx, txAborted, run, dbBefore, indexWarned, Locals, Inputs>>

\* lines 669-673: connect, create_tables, seed_universidad
CreateAndSeed ==
    /\ pc = "create"
    /\ LET c == create_tables(db)
           s == IF c.ok THEN seed_universidad(c.store) ELSE c
       IN  IF s.ok
           THEN /\ tx' = s.store
                /\ db' = Committed(db, s.store)
                /\ pc' = StageAfter(discovered, 0)
                /\ UNCHANGED err
           ELSE Raise(s.err)
    /\ fi' = 1
    /\ UNCHANGED <<txAborted, run, dbBefore, indexWarned, discovered, ri, rows,
                   texts_for_embedding, seen_ids, valid_conv, cnt, model, Inputs>>

\* after file fi of the stage: the next file, or the next loader
NextFile(stage) ==
    IF fi < Len(discovered[stage])
    THEN /\ pc' = pc
         /\ fi' = fi + 1
    ELSE /\ pc' = StageAfter(discovered, StageIndex(stage))
         /\ fi' = 1

\* one file of load_gastos or load_ingresos
LoadBudgetFile(stage, table) ==
    /\ pc = stage
    /\ LET rs == RowsOf(discovered[stage][fi])
           tuples == [i \in 1..Len(rs) |-> BudgetTuple(rs[i])]
           r == Exec(InsertStmt(tx, table, tuples, FALSE))
       IN  IF csv_open_reader(discovered[stage][fi]).raises # ""
           THEN Raise(csv_open_reader(discovered[stage][fi]).raises) /\ UNCHANGED fi
           ELSE IF AnioRaises(rs) THEN Raise("ValueError") /\ UNCHANGED fi
           ELSE IF tuples = <<>> \/ r.ok
           THEN /\ tx' = (IF tuples = <<>> THEN tx ELSE r.store)
                /\ db' = Committed(db, tx')
                /\ NextFile(stage)
                /\ UNCHANGED err
           ELSE Raise(r.err) /\ UNCHANGED fi
    /\ UNCHANGED <<txAborted, run, dbBefore, indexWarned, discovered, ri, rows,
                   texts_for_embedding, seen_ids, valid_conv, cnt, model, Inputs>>

load_gastos == LoadBudgetFile("gastos", "PRESUPUESTO_GASTOS")

load_ingresos == LoadBudgetFile("ingresos", "PRESUPUESTO_INGRESOS")

\* the statement of load_convocatoria without its ON CONFLICT clause
OnConflictRaise == FALSE

\* line 424: ON CONFLICT (cod_convocatoria) DO NOTHING
ON_CONFLICT_DO_NOTHING == TRUE

\* one file of load_convocatoria
load_convocatoria ==
    /\ pc = "convocatorias"
    /\ LET rs == RowsOf(discovered.convocatorias[fi])
           tuples == [i \in 1..Len(rs) |-> ConvTuple(rs[i])]
           r == Exec(InsertStmt(tx, "CONVOCATORIA_AYUDA", tuples,
                                ON_CONFLICT_DO_NOTHING))
       IN  IF csv_open_reader(discovered.convocatorias[fi]).raises # ""
           THEN Raise(csv_open_reader(discovered.convocatorias[fi]).raises)
                /\ UNCHANGED fi
           ELSE IF tuples = <<>> \/ r.ok
           THEN /\ tx' = (IF tuples = <<>> THEN tx ELSE r.store)
                /\ db' = Committed(db, tx')
                /\ NextFile("convocatorias")
                /\ UNCHANGED err
           ELSE Raise(r.err) /\ UNCHANGED fi
    /\ UNCHANGED <<txAborted, run, dbBefore, indexWarned, discovered, ri, rows,
                   texts_for_embedding, seen_ids, valid_conv, cnt, model, Inputs>>

\* lines 435-444 of load_ayuda: the snapshot of the valid grant-call keys
AyudaSnapshot(store) == Col(store["CONVOCATORIA_AYUDA"], "code")

load_ayuda_begin ==
    /\ pc = "ayudas"
    /\ LET r == Exec(Ok(tx))
       IN  IF r.ok
           THEN /\ valid_conv' = AyudaSnapshot(tx)
                /\ pc' = "ayudas_rows"
                /\ UNCHANGED <<err, tx, db>>
           ELSE Raise(r.err) /\ UNCHANGED valid_conv
    /\ fi' = 1
    /\ ri' = 1
    /\ rows' = <<>>
    /\ cnt' = ZeroCnt
    /\ UNCHANGED <<txAborted, run, dbBefore, indexWarned, discovered,
                   texts_for_embedding, seen_ids, model, Inputs>>

\* lines 458-473 without the test against valid_conv
AyudaVerdict_NoFkCheck(r, valid) ==
    IF Strip(r.conv) = <<>> THEN "skipped_empty" ELSE "kept"

\* lines 458-473 testing the reference as read, not stripped
AyudaVerdict_Unstripped(r, valid) ==
    IF r.conv = <<>> THEN "skipped_empty"
    ELSE IF r.conv \notin valid THEN "skipped_missing_fk"
    ELSE "kept"

\* which branch of lines 458-473 a source row takes
AyudaVerdict(r, valid) ==
    IF Strip(r.conv) = <<>> THEN "skipped_empty"
    ELSE IF Strip(r.conv) \notin valid THEN "skipped_missing_fk"
    ELSE "kept"

\* lines 453-473: one source row of the current grant-award file
load_ayuda_row ==
    /\ pc = "ayudas_rows"
    /\ csv_open_reader(discovered.ayudas[fi]).raises = ""
    /\ ri <= Len(RowsOf(discovered.ayudas[fi]))
    /\ LET r == RowsOf(discovered.ayudas[fi])[ri]
           v == AyudaVerdict(r, valid_conv)
       IN  /\ rows' = (IF v = "kept" THEN Append(rows, AyudaTuple(r)) ELSE rows)
           /\ cnt' = [cnt EXCEPT ![v] = @ + 1]
    /\ ri' = ri + 1
    /\ UNCHANGED <<db, tx, txAborted, pc, run, dbBefore, err, indexWarned,
                   discovered, fi, texts_for_embedding, seen_ids, valid_conv,
                   model, Inputs>>

\* lines 474-490: the file's bulk insert and the totals
load_ayuda_insert ==
    /\ pc = "ayudas_rows"
    /\ csv_open_reader(discovered.ayudas[fi]).raises = ""
    /\ ri > Len(RowsOf(discovered.ayudas[fi]))
    /\ LET r == Exec(InsertStmt(tx, "AYUDA", rows, FALSE))
       IN  IF rows = <<>> \/ r.ok
           THEN /\ tx' = (IF rows = <<>> THEN tx ELSE r.store)
                /\ db' = Committed(db, tx')
                /\ IF fi < Len(discovered.ayudas)
                   THEN pc' = pc /\ fi' = fi + 1
                   ELSE pc' = StageAfter(discovered, StageIndex("ayudas")) /\ fi' = 1
                /\ ri' = 1
                /\ rows' = <<>>
                /\ cnt' = [cnt EXCEPT
                              !.total_kept = @ + cnt.kept,
                              !.total_skipped_empty = @ + cnt.skipped_empty,
                              !.total_skipped_missing_fk = @ + cnt.skipped_missing_fk,
                              !.kept = 0, !.skipped_empty = 0,
                              !.skipped_missing_fk = 0]
                /\ UNCHANGED err
           ELSE Raise(r.err) /\ UNCHANGED <<fi, ri, rows, cnt>>
    /\ UNCHANGED <<txAborted, run, dbBefore, indexWarned, discovered,
                   texts_for_embedding, seen_ids, valid_conv, model, Inputs>>

\* the row loop of load_ayuda (452-453) or load_licitacion (521-522) over a
\* file the reader cannot hand over
row_loop_raises ==
    /\ pc \in {"ayudas_rows", "licitaciones_rows"}
    /\ LET stage == IF pc = "ayudas_rows" THEN "ayudas" ELSE "licitaciones"
           rd == csv_open_reader(discovered[stage][fi])
       IN  /\ rd.raises # ""
           /\ Raise(rd.raises)
    /\ UNCHANGED <<txAborted, run, dbBefore, indexWarned, discovered, Locals, Inputs>>

\* lines 498-512 of load_licitacion: the counters and the embedding model
load_licitacion_begin ==
    /\ pc = "licitaciones"
    /\ pc' = "licitaciones_rows"
    /\ seen_ids' = {}
    /\ model' = env.model
    /\ fi' = 1
    /\ ri' = 1
    /\ rows' = <<>>
    /\ texts_for_embedding' = <<>>
    /\ cnt' = ZeroCnt
    /\ UNCHANGED <<db, tx, txAborted, run, dbBefore, err, indexWarned,
                   discovered, valid_conv, Inputs>>

\* which branch of lines 523-531 a source row takes
LicVerdict(r, seen) ==
    IF Strip(r.nif) # UAM_NIF THEN "skipped_nif"
    ELSE IF r.ident \in seen THEN "skipped_dups"
    ELSE "kept"

\* lines 522-562: one source row of the current tender file
load_licitacion_row ==
    /\ pc = "licitaciones_rows"
    /\ csv_open_reader(discovered.licitaciones[fi]).raises = ""
    /\ ri <= Len(RowsOf(discovered.licitaciones[fi]))
    /\ LET r == RowsOf(discovered.licitaciones[fi])[ri]
           v == LicVerdict(r, seen_ids)
       IN  IF v = "kept" /\ to_int(r.ident).raises
           THEN /\ Raise("ValueError")
                /\ UNCHANGED <<ri, rows, texts_for_embedding, seen_ids, cnt>>
           ELSE /\ seen_ids' = (IF v = "kept" THEN seen_ids \cup {r.ident}
                                ELSE seen_ids)
                /\ rows' = (IF v = "kept" THEN Append(rows, LicTuple(r)) ELSE rows)
                /\ texts_for_embedding' =
                      (IF v = "kept"
                       THEN Append(texts_for_embedding,
                                   CombinedText(Strip(r.objeto), Strip(r.descripcion)))
                       ELSE texts_for_embedding)
                /\ cnt' = [cnt EXCEPT ![v] = @ + 1]
                /\ ri' = ri + 1
                /\ UNCHANGED <<db, tx, pc, err>>
    /\ UNCHANGED <<txAborted, run, dbBefore, indexWarned, discovered, fi,
                   valid_conv, model, Inputs>>

\* lines 617-622 without total_skipped_dups += skipped_dups
LicNextFile_DupsNotTotalled ==
    /\ IF fi < Len(discovered.licitaciones)
       THEN pc' = "licitaciones_rows" /\ fi' = fi + 1
       ELSE pc' = StageAfter(discovered, StageIndex("licitaciones")) /\ fi' = 1
    /\ ri' = 1
    /\ rows' = <<>>
    /\ texts_for_embedding' = <<>>
    /\ cnt' = [cnt EXCEPT
                  !.total_kept = @ + cnt.kept,
                  !.total_skipped_nif = @ + cnt.skipped_nif,
                  !.kept = 0, !.skipped_nif = 0, !.skipped_dups = 0]

\* lines 617-622, then the next file or the end of the loader
LicNextFile ==
    /\ IF fi < Len(discovered.licitaciones)
       THEN pc' = "licitaciones_rows" /\ fi' = fi + 1
       ELSE pc' = StageAfter(discovered, StageIndex("licitaciones")) /\ fi' = 1
    /\ ri' = 1
    /\ rows' = <<>>
    /\ texts_for_embedding' = <<>>
    /\ cnt' = [cnt EXCEPT
                  !.total_kept = @ + cnt.kept,
                  !.total_skipped_nif = @ + cnt.skipped_nif,
                  !.total_skipped_dups = @ + cnt.skipped_dups,
                  !.kept = 0, !.skipped_nif = 0, !.skipped_dups = 0]

\* lines 564-603: the file's embeddings and its bulk insert
load_licitacion_insert ==
    /\ pc = "licitaciones_rows"
    /\ csv_open_reader(discovered.licitaciones[fi]).raises = ""
    /\ ri > Len(RowsOf(discovered.licitaciones[fi]))
    /\ LET embeddings == Embeddings(texts_for_embedding)
           r == Exec(InsertStmt(tx, "LICITACION",
                                RowsWithEmbeddings(rows, embeddings), FALSE))
       IN  IF rows = <<>>
           THEN LicNextFile /\ UNCHANGED <<tx, db, err>>
           ELSE IF ~r.ok
           THEN Raise(r.err)
                /\ UNCHANGED <<fi, ri, rows, texts_for_embedding, cnt>>
           ELSE /\ tx' = r.store
                /\ db' = Committed(db, tx')
                /\ UNCHANGED err
                /\ IF embeddings # <<>>
                   THEN /\ pc' = "licitaciones_index"
                        /\ UNCHANGED <<fi, ri, rows, texts_for_embedding, cnt>>
                   ELSE LicNextFile
    /\ UNCHANGED <<txAborted, run, dbBefore, indexWarned, discovered, seen_ids,
                   valid_conv, model, Inputs>>

\* CREATE INDEX IF NOT EXISTS, which the environment may refuse
CreateIndex(store) ==
    IF store["LICITACION"].index \/ env.indexOk
    THEN Ok([store EXCEPT !["LICITACION"].index = TRUE])
    ELSE Fail(store, "IndexBuildError")

\* lines 605-615: the similarity index, its failure caught and printed
load_licitacion_index ==
    /\ pc = "licitaciones_index"
    /\ LET r == Exec(CreateIndex(tx))
       IN  /\ tx' = (IF r.ok THEN r.store ELSE tx)
           /\ txAborted' = (txAborted \/ (~r.ok /\ ~Autocommit))
           /\ indexWarned' = (indexWarned \/ ~r.ok)
    /\ db' = Committed(db, tx')
    /\ LicNextFile
    /\ UNCHANGED <<run, dbBefore, err, discovered, seen_ids, valid_conv, model,
                   Inputs>>

\* conn.commit(): the server ends an aborted transaction by rolling it back
Commit(dbv, txv, aborted) == IF aborted THEN dbv ELSE txv

\* line 687
commit ==
    /\ pc = "commit"
    /\ db' = Commit(db, tx, txAborted)
    /\ tx' = db'
    /\ pc' = "done"
    /\ UNCHANGED <<txAborted, run, dbBefore, err, indexWarned, discovered,
                   Locals, Inputs>>

\* main() is run again on the same directory, in the same environment
Rerun ==
    /\ pc \in {"done", "failed", "exit"}
    /\ run < MaxRuns
    /\ run' = run + 1
    /\ pc' = "main"
    /\ dbBefore' = db
    /\ tx' = db
    /\ txAborted' = FALSE
    /\ err' = ""
    /\ indexWarned' = FALSE
    /\ discovered' = NoneDiscovered
    /\ fi' = 1
    /\ ri' = 1
    /\ rows' = <<>>
    /\ texts_for_embedding' = <<>>
    /\ seen_ids' = {}
    /\ valid_conv' = {}
    /\ cnt' = ZeroCnt
    /\ model' = FALSE
    /\ UNCHANGED <<db, Inputs>>

---------------------------------------------------------------------------
(* The source directories and stores a run may start from *)

\* a csv.DictReader row; a column the file lacks reads as the empty string
Row(cod, anio, conv, nif, ident, objeto, descripcion) ==
    [cod |-> cod, anio |-> anio, conv |-> conv, nif |-> nif, ident |-> ident,
     objeto |-> objeto, descripcion |-> descripcion, nombre |-> <<>>]

BudgetRow(cod, anio) == Row(cod, anio, <<>>, <<>>, <<>>, <<>>, <<>>)
ConvRow(cod, conv) == Row(cod, <<>>, conv, <<>>, <<>>, <<>>, <<>>)
NamedConvRow(conv, nombre) ==
    [ConvRow(<<"2", "3">>, conv) EXCEPT !.nombre = nombre]
TenderRow(nif, ident, objeto, descripcion) ==
    Row(<<>>, <<>>, <<>>, nif, ident, objeto, descripcion)

File(name, rs) == [name |-> name, rows |-> rs, utf8 |-> TRUE]

\* a file with a byte sequence that is not UTF-8
Latin1File(name, rs) == [File(name, rs) EXCEPT !.utf8 = FALSE]

SeqsUpTo(S, n) == UNION {[1..k -> S] : k \in 0..n}

\* the ways rows rs lie in a category's files: one file, or two files read in
\* sorted order (first, then second), or no file at all when there is no row
Layouts(rs, first, second) ==
    {{File(second, rs)}}
      \cup {{File(first, SubSeq(rs, 1, k)), File(second, SubSeq(rs, k + 1, Len(rs)))}
               : k \in 0..Len(rs)}
      \cup (IF rs = <<>> THEN {{}} ELSE {})

OTHER_NIF == <<"B", "1">>
TXT == <<"o", "b", "r", "a">>
EU == <<"F", "E", "D", "E", "R">>

BudgetRows ==
    {BudgetRow(c, a) : c \in {<<"2", "3">>, UAM_COD, <<"\"", "0", "2", "3", "\"">>,
                              <<"9", "9">>},
                       a \in {<<"2", "0", "2", "4">>, <<"n", "a">>}}
      \cup {BudgetRow(<<"2", "3">>, <<"^2">>)}

ConvRows == {ConvRow(<<"2", "3">>, c) : c \in {<<"A">>, <<"A", " ">>, <<"B">>}}
              \cup {ConvRow(<<"9", "9">>, <<"A">>), NamedConvRow(<<"A">>, TXT)}

AyudaRows == {ConvRow(<<"2", "3">>, c) : c \in {<<>>, <<" ">>, <<"A">>, <<" ", "B">>}}
               \cup {ConvRow(<<"9", "9">>, <<"A">>)}

TenderRows ==
    {TenderRow(UAM_NIF, i, TXT, <<>>) : i \in {<<"1">>, <<"2">>, <<"0", "1">>, <<"x">>}}
      \cup {TenderRow(UAM_NIF \o <<" ">>, <<"1">>, <<>>, <<" ">>),
            TenderRow(OTHER_NIF, <<"1">>, <<>>, EU)}

RareTenderRows ==
    {TenderRow(UAM_NIF, <<"^2">>, TXT, EU), TenderRow(UAM_NIF, <<>>, TXT, <<>>),
     TenderRow(UAM_NIF, <<"n", "7">>, <<>>, EU)}

D_GASTOS == {File(F_GASTOS, <<BudgetRow(<<"2", "3">>, <<"2", "0", "2", "4">>)>>)}
D_INGRESOS == {File(F_INGRESOS, <<BudgetRow(UAM_COD, <<"2", "0", "2", "4">>)>>)}
D_CONV == {File(F_CONV_1, <<ConvRow(<<"2", "3">>, <<"A">>)>>)}
D_AYUDAS == {File(F_AYUDAS_1, <<ConvRow(<<"2", "3">>, <<"A">>),
                               ConvRow(<<"2", "3">>, <<"B">>)>>)}
D_LIC == {File(F_LIC_2, <<TenderRow(UAM_NIF, <<"1">>, TXT, EU),
                          TenderRow(UAM_NIF, <<"2">>, <<>>, <<>>)>>)}

Dir(files) == [exists |-> TRUE, files |-> files]

GoodEnv == [model |-> TRUE, embedOk |-> TRUE, indexOk |-> TRUE]

Envs == {e \in [model : BOOLEAN, embedOk : BOOLEAN, indexOk : BOOLEAN] :
            ~e.model => (e.embedOk /\ e.indexOk)}

\* a store left by an earlier run of pgvector_ingest_and_query.py ingest --dim 128
ForeignStore ==
    [EmptyStore EXCEPT !["LICITACION"] =
        [exists |-> TRUE, refs |-> {}, pk |-> TRUE, width |-> 128, index |-> TRUE,
         rows |-> <<[id |-> SomeInt(7), nif |-> NULL_TEXT, objeto |-> TXT,
                     descripcion |-> NULL_TEXT,
                     embedding |-> Embedding(128, TXT)]>>]]

\* the budget files vary
BudgetDirs ==
    {Dir(g \cup i \cup D_CONV \cup D_AYUDAS \cup D_LIC) :
        g \in {{}} \cup {{File(F_GASTOS, rs)} : rs \in SeqsUpTo(BudgetRows, 1)},
        i \in {{}, D_INGRESOS, {File(F_INGRESOS, <<BudgetRow(<<"9", "9">>, <<>>)>>)}}}

\* the grant-call files vary
ConvDirs ==
    {Dir(D_GASTOS \cup c \cup a \cup D_LIC) :
        c \in UNION {Layouts(rs, F_CONV_1, F_CONV_2) : rs \in SeqsUpTo(ConvRows, MaxConvRows)},
        a \in {{}, D_AYUDAS}}

\* the grant-award files vary
AyudaDirs ==
    {Dir(D_INGRESOS \cup c \cup a) :
        c \in {{}, D_CONV},
        a \in UNION {Layouts(rs, F_AYUDAS_1, F_AYUDAS_2) :
                        rs \in SeqsUpTo(AyudaRows, MaxAyudaRows)}}

\* the tender files vary
TenderDirs ==
    {Dir(D_GASTOS \cup D_CONV \cup D_AYUDAS \cup l) :
        l \in UNION {Layouts(rs, F_LIC_1, F_LIC_2) :
                        rs \in SeqsUpTo(TenderRows, MaxLicRows)}}

\* the environment varies
EnvDirs ==
    {Dir(D_GASTOS \cup l) :
        l \in {D_LIC,
               {File(F_LIC_1, <<TenderRow(UAM_NIF, <<"1">>, TXT, <<>>)>>),
                File(F_LIC_2, <<TenderRow(UAM_NIF, <<"2">>, <<>>, EU)>>)},
               {File(F_LIC_1, <<TenderRow(UAM_NIF, <<"1">>, TXT, <<>>)>>),
                File(F_LIC_2, <<TenderRow(OTHER_NIF, <<"2">>, <<>>, EU)>>)}}}

\* tender files with a rare identifier, and directories with nothing to load
RareDirs ==
    {Dir(D_GASTOS \cup {File(F_LIC_2, <<r>>)}) : r \in RareTenderRows}
      \cup {Dir({}), Dir({File(F_NOTES, <<>>)}), [exists |-> FALSE, files |-> {}]}

\* grant-call files whose names carry "ayudas" and "conv" apart or reversed
NameDirs ==
    {Dir(D_GASTOS \cup D_AYUDAS \cup {File(n, <<ConvRow(<<"2", "3">>, <<"A">>)>>)}) :
        n \in {F_AYUDAS_CONV, F_CONVOCATORIAS}}
      \cup {Dir({File(F_CONVOCATORIAS, <<ConvRow(<<"2", "3">>, <<"A">>)>>)})}

\* one file of the directory is not UTF-8
EncDirs ==
    {Dir({Latin1File(F_GASTOS, <<BudgetRow(UAM_COD, <<"2", "0", "2", "4">>)>>)}
            \cup D_LIC),
     Dir(D_GASTOS \cup {Latin1File(F_CONV_1, <<ConvRow(<<"2", "3">>, <<"A">>)>>)}),
     Dir(D_CONV \cup {Latin1File(F_AYUDAS_1, <<ConvRow(<<"2", "3">>, <<"A">>)>>)}),
     Dir(D_GASTOS \cup {Latin1File(F_LIC_2, <<TenderRow(UAM_NIF, <<"1">>, TXT, <<>>)>>)}),
     Dir({File(F_LIC_1, <<TenderRow(UAM_NIF, <<"1">>, TXT, <<>>)>>),
          Latin1File(F_LIC_2, <<TenderRow(UAM_NIF, <<"2">>, TXT, <<>>)>>)})}

\* query_documents has not run
QryIdle == [pc |-> "idle", q |-> <<>>, dim |-> 0, k |-> 0, fetched |-> <<>>,
            printed |-> <<>>, err |-> ""]

\* no coercion function has been called
CoIdle == [fn |-> "", arg |-> [isNone |-> TRUE, s |-> <<>>],
           out |-> [raises |-> FALSE, isNull |-> TRUE, val |-> [none |-> TRUE]]]

\* to_pgvector_literal has not been called
LitIdle == [pc |-> "idle", vec |-> <<>>, text |-> <<>>, parsed |-> <<>>]

\* ingest_csv is not running
IngIdle == [pc |-> "idle", n |-> 0, dim |-> 0, ids |-> <<>>, texts |-> <<>>,
            err |-> ""]

InitRun ==
    /\ tx = db
    /\ dbBefore = db
    /\ txAborted = FALSE
    /\ pc = "main"
    /\ run = 1
    /\ err = ""
    /\ indexWarned = FALSE
    /\ discovered = NoneDiscovered
    /\ fi = 1
    /\ ri = 1
    /\ rows = <<>>
    /\ texts_for_embedding = <<>>
    /\ seen_ids = {}
    /\ valid_conv = {}
    /\ cnt = ZeroCnt
    /\ model = FALSE
    /\ ing = IngIdle
    /\ qry = QryIdle
    /\ co = CoIdle
    /\ lit = LitIdle

---------------------------------------------------------------------------
(* pgvector_ingest_and_query.py: ensure_table and ingest_csv *)

\* pg_attribute.atttypmod of a vector(width) column: pgvector keeps the width
\* itself as the type modifier
Atttypmod(width) == width

\* the table CREATE TABLE LICITACION of ensure_table makes
IngestTable(dim) ==
    [exists |-> TRUE, refs |-> {}, pk |-> TRUE, width |-> dim, index |-> FALSE,
     rows |-> <<>>]

\* ALTER TABLE LICITACION DROP COLUMN embedding: its values and its index go
DropColumn(table) ==
    [table EXCEPT !.width = 0, !.index = FALSE,
                  !.rows = [i \in 1..Len(table.rows) |->
                               [table.rows[i] EXCEPT !.embedding = NoEmbedding]]]

\* ALTER TABLE LICITACION ADD COLUMN embedding vector(dim)
AddColumn(table, dim) == [table EXCEPT !.width = dim]

\* existing_dim of ensure_table, 0 standing for None
ExistingDim(table) == Atttypmod(table.width) - TYPMOD_OFFSET

\* ensure_table(cur, dim) on the LICITACION table
ensure_table(table, dim) ==
    IF ~table.exists THEN IngestTable(dim)
    ELSE IF table.width = 0 THEN AddColumn(table, dim)
    ELSE IF ExistingDim(table) # 0 /\ ExistingDim(table) # dim
         THEN AddColumn(DropColumn(table), dim)
    ELSE table

\* clean_ident of ingest_csv
clean_ident(x) ==
    IF x = <<>> THEN NoInt
    ELSE IF IntParses(Strip(x)) THEN SomeInt(IntOf(Strip(x)))
    ELSE NoInt

\* txt.split("\n", 1): the text before the first newline, and the text after it
RECURSIVE BeforeNewline(_)
BeforeNewline(t) ==
    IF t = <<>> \/ Head(t) = "\n" THEN <<>>
    ELSE <<Head(t)>> \o BeforeNewline(Tail(t))

RECURSIVE AfterNewline(_)
AfterNewline(t) ==
    IF t = <<>> THEN <<>>
    ELSE IF Head(t) = "\n" THEN Tail(t)
    ELSE AfterNewline(Tail(t))

\* the tuple ingest_csv inserts for one source id, text and embedding
IngestTuple(sid, txt, emb) ==
    [id |-> clean_ident(sid), nif |-> NULL_TEXT,
     objeto |-> IF Contains(txt, <<"\n">>) THEN Strip(BeforeNewline(txt)) ELSE txt,
     descripcion |-> IF Contains(txt, <<"\n">>) THEN Strip(AfterNewline(txt))
                     ELSE NULL_TEXT,
     embedding |-> emb]

\* the widths `ingest --dim` is run with
Dims == {4, 128, 132, 384}

\* the CSV files `ingest` is run on
IngestFiles ==
    SeqsUpTo({TenderRow(UAM_NIF, <<"1">>, TXT, EU), TenderRow(UAM_NIF, <<"2">>, TXT, <<>>)},
             MaxIngestRows)

LoaderUnchanged ==
    UNCHANGED <<src, env, tx, txAborted, pc, run, dbBefore, err, indexWarned,
                discovered, Locals, co, lit>>

\* lines 131-175: the file is read and its embeddings computed
ingest_read ==
    /\ ing.pc = "idle"
    /\ ing.n < MaxIngests
    /\ \E f \in IngestFiles, dim \in Dims :
          ing' = [pc |-> IF f = <<>> THEN "idle" ELSE "ensure",
                  n |-> ing.n + 1,
                  dim |-> dim,
                  ids |-> [i \in 1..Len(f) |-> f[i].ident],
                  texts |-> [i \in 1..Len(f) |->
                                CombinedText(Strip(f[i].objeto), Strip(f[i].descripcion))],
                  err |-> ""]
    /\ qry' = QryIdle
    /\ UNCHANGED db
    /\ LoaderUnchanged

\* lines 178-182: connect with autocommit, ensure_table(cur, actual_dim)
ingest_ensure ==
    /\ ing.pc = "ensure"
    /\ db' = [db EXCEPT !["LICITACION"] = ensure_table(@, ing.dim)]
    /\ ing' = [ing EXCEPT !.pc = "insert"]
    /\ UNCHANGED qry
    /\ LoaderUnchanged

\* lines 195-214: the bulk insert; a refused insert ends the program
ingest_insert ==
    /\ ing.pc = "insert"
    /\ LET tuples == [i \in 1..Len(ing.ids) |->
                         IngestTuple(ing.ids[i], ing.texts[i],
                                     Embedding(ing.dim, ing.texts[i]))]
           r == InsertStmt(db, "LICITACION", tuples, FALSE)
       IN  /\ db' = r.store
           /\ ing' = [ing EXCEPT !.pc = IF r.ok THEN "index" ELSE "idle",
                                 !.err = r.err]
    /\ UNCHANGED qry
    /\ LoaderUnchanged

\* lines 216-226: the index, its failure caught and printed
ingest_index ==
    /\ ing.pc = "index"
    /\ \E built \in BOOLEAN :
          db' = [db EXCEPT !["LICITACION"].index = @ \/ built]
    /\ ing' = [ing EXCEPT !.pc = "idle"]
    /\ UNCHANGED qry
    /\ LoaderUnchanged

\* a LICITACION table whose embedding column was dropped by hand
ColumnlessStore ==
    [EmptyStore EXCEPT !["LICITACION"] =
        [exists |-> TRUE, refs |-> {}, pk |-> TRUE, width |-> 0, index |-> FALSE,
         rows |-> <<[id |-> SomeInt(7), nif |-> NULL_TEXT, objeto |-> TXT,
                     descripcion |-> NULL_TEXT, embedding |-> NoEmbedding]>>]]

\* the store main() of load_filtered_csvs.py commits when no tender row is kept
TenderlessStore ==
    [EmptyStore EXCEPT !["LICITACION"] =
        [exists |-> TRUE, refs |-> {}, pk |-> TRUE, width |-> DDL_DIM,
         index |-> FALSE, rows |-> <<>>]]

---------------------------------------------------------------------------
(* pgvector_ingest_and_query.py: query_documents *)

\* a distance to a row without embedding is NULL
NoDistance == [isNull |-> TRUE, v |-> 0]

AbsDiff(a, b) == IF a < b THEN b - a ELSE a - b

\* embedding <-> qlit: the distance between the embeddings of two texts, a
\* number that is 0 for equal texts and grows with the difference in length
Distance(q, e) ==
    IF e.isNull THEN NoDistance
    ELSE [isNull |-> FALSE, v |-> IF q = e.of THEN 0 ELSE AbsDiff(Len(q), Len(e.of)) + 1]

\* ORDER BY distance places d1 no later than d2 (ascending, NULLs last)
DistLeq(d1, d2) == d2.isNull \/ (~d1.isNull /\ d1.v <= d2.v)

\* the error the SELECT of line 247 raises, "" if none.  The distance operator
\* compares dimensions when it is evaluated: for a stored vector, or for an
\* index centre when the plan scans the ivfflat index.
QueryError(table, dim, useIndex) ==
    IF ~table.exists THEN "UndefinedTable"
    ELSE IF table.width = 0 THEN "UndefinedColumn(embedding)"
    ELSE IF dim # table.width
            /\ (useIndex \/ \E i \in 1..Len(table.rows) : ~table.rows[i].embedding.isNull)
         THEN "DataException(different vector dimensions)"
    ELSE ""

InjSeqs(n, m) == {p \in [1..m -> 1..n] : \A i, j \in 1..m : i # j => p[i] # p[j]}

Min(a, b) == IF a < b THEN a ELSE b

\* the row orders a sequential scan with ORDER BY distance LIMIT k may return:
\* the k nearest rows, ties in any order
SeqScanOrders(table, q, k) ==
    LET n == Len(table.rows)
        d(i) == Distance(q, table.rows[i].embedding)
    IN  {p \in InjSeqs(n, Min(k, n)) :
            /\ \A i \in 1..(Len(p) - 1) : DistLeq(d(p[i]), d(p[i + 1]))
            /\ \A j \in 1..n : (\A i \in 1..Len(p) : p[i] # j) =>
                                  \A i \in 1..Len(p) : DistLeq(d(p[i]), d(j))}

\* the row orders a scan of the ivfflat index may return: rows with an
\* embedding, in distance order, from the lists the scan probes
IndexScanOrders(table, q, k) ==
    LET n == Len(table.rows)
        d(i) == Distance(q, table.rows[i].embedding)
    IN  UNION {{p \in InjSeqs(n, m) :
                   /\ \A i \in 1..m : ~table.rows[p[i]].embedding.isNull
                   /\ \A i \in 1..(m - 1) : DistLeq(d(p[i]), d(p[i + 1]))}
                 : m \in 0..Min(k, n)}

\* cur.fetchall(): identificador and distance of the rows, in order p
Fetched(table, q, p) ==
    [i \in 1..Len(p) |->
        [id |-> table.rows[p[i]].id, dist |-> Distance(q, table.rows[p[i]].embedding)]]

\* lines 254-258: the rows printed before `{dist:.6f}` meets a None
RECURSIVE PrintedRows(_)
PrintedRows(fetched) ==
    IF fetched = <<>> \/ Head(fetched).dist.isNull THEN <<>>
    ELSE <<Head(fetched)>> \o PrintedRows(Tail(fetched))

\* the texts `query --q` is run with
QueryTexts == {TXT, EU}

\* query_documents(query, 'dummy', dim, k)
query_documents ==
    /\ ing.pc = "idle"
    /\ qry.pc = "idle"
    /\ \E q \in QueryTexts, dim \in Dims, k \in 1..MaxK,
          useIndex \in {FALSE} \cup {db["LICITACION"].index} :
          LET table == db["LICITACION"]
              e == QueryError(table, dim, useIndex)
          IN  IF e # ""
              THEN qry' = [pc |-> "done", q |-> q, dim |-> dim, k |-> k,
                           fetched |-> <<>>, printed |-> <<>>, err |-> e]
              ELSE \E p \in (IF useIndex THEN IndexScanOrders(table, q, k)
                                         ELSE SeqScanOrders(table, q, k)) :
                      LET f == Fetched(table, q, p)
                      IN  qry' = [pc |-> "done", q |-> q, dim |-> dim, k |-> k,
                                  fetched |-> f, printed |-> PrintedRows(f),
                                  err |-> IF PrintedRows(f) = f THEN ""
                                          ELSE "TypeError"]
    /\ UNCHANGED <<db, ing>>
    /\ LoaderUnchanged

InitVec ==
    /\ src = Dir({})
    /\ env = GoodEnv
    /\ db \in {EmptyStore, ForeignStore, ColumnlessStore, TenderlessStore}
    /\ InitRun

NextVec ==
    \/ ingest_read
    \/ ingest_ensure
    \/ ingest_insert
    \/ ingest_index
    \/ query_documents

SpecVec == InitVec /\ [][NextVec]_vars

---------------------------------------------------------------------------
(* The coercion functions: to_decimal, to_int, parse_date_yyyymmdd, parse_ts *)

\* an argument of a coercion function: None, or the string s
NoneArg == [isNone |-> TRUE, s |-> <<>>]
StrArg(s) == [isNone |-> FALSE, s |-> s]

\* the outcome of a call: None returned, a value returned, an exception raised
NullOut == [raises |-> FALSE, isNull |-> TRUE, val |-> [none |-> TRUE]]
ValueOut(v) == [raises |-> FALSE, isNull |-> FALSE, val |-> v]
RaiseOut == [raises |-> TRUE, isNull |-> TRUE, val |-> [none |-> TRUE]]

UpperChar(c) ==
    IF \E i \in 1..Len(Lowers) : Lowers[i] = c
    THEN Uppers[CHOOSE i \in 1..Len(Lowers) : Lowers[i] = c]
    ELSE c

\* str.upper()
Upper(s) == [i \in 1..Len(s) |-> UpperChar(s[i])]

\* s.replace(old, new), old one character long
RECURSIVE Replace(_, _, _)
Replace(s, old, new) ==
    IF s = <<>> THEN <<>>
    ELSE (IF Head(s) = old THEN new ELSE <<Head(s)>>) \o Replace(Tail(s), old, new)

AllDigits(s) == \A i \in 1..Len(s) : s[i] \in Digits

SetMin(S) == CHOOSE x \in S : \A y \in S : x <= y

\* decimal.Decimal(s) of a string: [ok, val], ok FALSE for InvalidOperation.
\* A number is [kind |-> "num", num, exp], worth num * 10^exp.
DecimalOf(s) ==
    LET t == Replace(Strip(s), "_", <<>>)
        signed == t # <<>> /\ Head(t) \in {"+", "-"}
        sign == IF signed /\ Head(t) = "-" THEN -1 ELSE 1
        low == Lower(IF signed THEN Tail(t) ELSE t)
        epos == {i \in 1..Len(low) : low[i] = "e"}
        mant == IF epos = {} THEN low ELSE SubSeq(low, 1, SetMin(epos) - 1)
        expo == IF epos = {} THEN <<"0">> ELSE SubSeq(low, SetMin(epos) + 1, Len(low))
        esigned == expo # <<>> /\ Head(expo) \in {"+", "-"}
        esign == IF esigned /\ Head(expo) = "-" THEN -1 ELSE 1
        edigits == IF esigned THEN Tail(expo) ELSE expo
        dots == {i \in 1..Len(mant) : mant[i] = "."}
        ip == IF dots = {} THEN mant ELSE SubSeq(mant, 1, SetMin(dots) - 1)
        fp == IF dots = {} THEN <<>> ELSE SubSeq(mant, SetMin(dots) + 1, Len(mant))
        nan == <<"n", "a", "n">>
    IN  IF low \in {<<"i", "n", "f">>, <<"i", "n", "f", "i", "n", "i", "t", "y">>}
        THEN [ok |-> TRUE, val |-> [kind |-> "inf", num |-> sign, exp |-> 0]]
        ELSE IF \E k \in {3, 4} :
                   /\ Len(low) >= k
                   /\ SubSeq(low, 1, k) = (IF k = 3 THEN nan ELSE <<"s">> \o nan)
                   /\ AllDigits(SubSeq(low, k + 1, Len(low)))
        THEN [ok |-> TRUE, val |-> [kind |-> "nan", num |-> 0, exp |-> 0]]
        ELSE IF AllDigits(ip) /\ AllDigits(fp) /\ ip \o fp # <<>>
                /\ edigits # <<>> /\ AllDigits(edigits)
        THEN [ok |-> TRUE,
              val |-> [kind |-> "num", num |-> sign * IntOf(ip \o fp),
                       exp |-> esign * IntOf(edigits) - Len(fp)]]
        ELSE [ok |-> FALSE, val |-> [none |-> TRUE]]

\* lines 68-80
to_decimal(a) ==
    IF a.isNone THEN NullOut
    ELSE LET s == Strip(a.s) IN
         IF s = <<>> \/ Upper(s) = <<"N", "A">> \/ Upper(s) = <<"N", "U", "L", "L">>
         THEN NullOut
         ELSE LET s2 == Replace(Replace(s, ".", <<>>), ",", <<".">>)
                  d == DecimalOf(s2)
              IN  IF d.ok THEN ValueOut(d.val) ELSE NullOut

\* lines 83-93, with the test for None
to_int_or_none(a) ==
    IF a.isNone THEN NullOut
    ELSE LET r == to_int(a.s) IN
         IF r.raises THEN RaiseOut
         ELSE IF r.val.isNull THEN NullOut
         ELSE ValueOut([v |-> r.val.v])

\* s starts with a character of set a followed by a character of set b
Two(s, a, b) == Len(s) >= 2 /\ s[1] \in a /\ s[2] \in b

One(s, a) == Len(s) >= 1 /\ s[1] \in a

\* the number of whitespace characters s starts with
RECURSIVE LeadingSpace(_)
LeadingSpace(s) ==
    IF s # <<>> /\ Head(s) \in Whitespace THEN 1 + LeadingSpace(Tail(s)) ELSE 0

\* the lengths of the prefixes of s that one directive of a strptime format
\* matches, in the order the regular expression of _strptime tries them:
\*   %Y \d\d\d\d                  %m 1[0-2]|0[1-9]|[1-9]
\*   %d 3[01]|[12]\d|0[1-9]|[1-9]| [1-9]
\*   %H 2[0-3]|[0-1]\d|\d         %M [0-5]\d|\d         %S 6[0-1]|[0-5]\d|\d
\* a blank of the format is \s+, any other character itself, ignoring case
Candidates(tok, s) ==
    LET two(c) == IF c THEN <<2>> ELSE <<>>
        one(c) == IF c THEN <<1>> ELSE <<>>
    IN  CASE tok = "Y" -> IF Len(s) >= 4 /\ AllDigits(SubSeq(s, 1, 4)) THEN <<4>> ELSE <<>>
          [] tok = "m" -> two(Two(s, {"1"}, {"0", "1", "2"}) \/ Two(s, {"0"}, Digits \ {"0"}))
                            \o one(One(s, Digits \ {"0"}))
          [] tok = "d" -> two(Two(s, {"3"}, {"0", "1"}) \/ Two(s, {"1", "2"}, Digits)
                                 \/ Two(s, {"0"}, Digits \ {"0"}))
                            \o one(One(s, Digits \ {"0"}))
                            \o two(Two(s, {" "}, Digits \ {"0"}))
          [] tok = "H" -> two(Two(s, {"2"}, {"0", "1", "2", "3"}) \/ Two(s, {"0", "1"}, Digits))
                            \o one(One(s, Digits))
          [] tok = "M" -> two(Two(s, {"0", "1", "2", "3", "4", "5"}, Digits))
                            \o one(One(s, Digits))
          [] tok = "S" -> two(Two(s, {"6"}, {"0", "1"})
                                 \/ Two(s, {"0", "1", "2", "3", "4", "5"}, Digits))
                            \o one(One(s, Digits))
          [] tok = " " -> [i \in 1..LeadingSpace(s) |-> LeadingSpace(s) + 1 - i]
          [] OTHER -> one(s # <<>> /\ LowerChar(Head(s)) = LowerChar(tok))

NoMatch == [ok |-> FALSE, len |-> 0, parts |-> <<>>]

\* re.match of the format's regular expression at the start of s: the first
\* choice of alternatives, in order, under which every directive matches
RECURSIVE MatchFrom(_, _)
RECURSIVE TryCandidates(_, _, _)
MatchFrom(toks, s) ==
    IF toks = <<>> THEN [ok |-> TRUE, len |-> 0, parts |-> <<>>]
    ELSE TryCandidates(toks, s, Candidates(Head(toks), s))

\* the first of the prefix lengths c of the first directive after which the
\* other directives match
TryCandidates(toks, s, c) ==
    IF c = <<>> THEN NoMatch
    ELSE LET r == MatchFrom(Tail(toks), SubSeq(s, Head(c) + 1, Len(s)))
         IN  IF r.ok
             THEN [ok |-> TRUE, len |-> Head(c) + r.len,
                   parts |-> <<SubSeq(s, 1, Head(c))>> \o r.parts]
             ELSE TryCandidates(toks, s, Tail(c))

IsLeap(y) == y % 4 = 0 /\ (y % 100 # 0 \/ y % 400 = 0)

DaysIn(y, m) ==
    IF m = 2 THEN (IF IsLeap(y) THEN 29 ELSE 28)
    ELSE IF m \in {4, 6, 9, 11} THEN 30 ELSE 31

\* datetime.strptime(s, format): [ok, val], ok FALSE for ValueError (no match,
\* unconverted data remains, or a value datetime refuses)
Strptime(s, toks) ==
    LET mt == MatchFrom(toks, s)
        field(name, default) ==
            IF \E i \in 1..Len(toks) : toks[i] = name
            THEN IntOf(Strip(mt.parts[CHOOSE i \in 1..Len(toks) : toks[i] = name]))
            ELSE default
        v == [y |-> field("Y", 1900), m |-> field("m", 1), d |-> field("d", 1),
              H |-> field("H", 0), M |-> field("M", 0), S |-> field("S", 0)]
    IN  IF ~mt.ok \/ mt.len # Len(s) THEN [ok |-> FALSE, val |-> [none |-> TRUE]]
        ELSE IF v.y < 1 \/ v.d > DaysIn(v.y, v.m) \/ v.S > 59
        THEN [ok |-> FALSE, val |-> [none |-> TRUE]]
        ELSE [ok |-> TRUE, val |-> v]

\* "%Y%m%d"
FMT_YYYYMMDD == <<"Y", "m", "d">>

\* lines 96-105
parse_date_yyyymmdd(a) ==
    IF a.isNone \/ a.s = <<>> THEN NullOut
    ELSE LET s == Strip(a.s) IN
         IF s = <<>> THEN NullOut
         ELSE LET r == Strptime(s, FMT_YYYYMMDD)
              IN  IF r.ok THEN ValueOut([y |-> r.val.y, m |-> r.val.m, d |-> r.val.d])
                  ELSE NullOut

\* fmts of parse_ts: "%Y-%m-%d %H:%M:%S", "%Y-%m-%dT%H:%M:%S", "%Y-%m-%d"
FMTS_TS ==
    <<<<"Y", "-", "m", "-", "d", " ", "H", ":", "M", ":", "S">>,
      <<"Y", "-", "m", "-", "d", "T", "H", ":", "M", ":", "S">>,
      <<"Y", "-", "m", "-", "d">>>>

\* lines 108-125
parse_ts(a) ==
    IF a.isNone \/ a.s = <<>> THEN NullOut
    ELSE LET s == Strip(a.s)
             ok == {i \in 1..Len(FMTS_TS) : Strptime(s, FMTS_TS[i]).ok}
         IN  IF s = <<>> \/ ok = {} THEN NullOut
             ELSE ValueOut(Strptime(s, FMTS_TS[SetMin(ok)]).val)

\* the strings the coercion functions are called with
NumberChars == {"1", "5", ".", ","}

DecimalWords ==
    {<<"N", "A">>, <<"n", "a">>, <<"N", "a">>, <<"N", "U", "L", "L">>,
     <<"n", "u", "l", "l">>, <<"N", "u", "l", "l">>, <<" ", "N", "A", " ">>,
     <<" ", "1", ",", "5", " ">>, <<"1", ".", "2", "3", "4", ",", "5", "6">>,
     <<"a", "b", "c">>, <<"n", "a", "n">>, <<"1", "e", "2">>, <<"-", "1", ",", "5">>,
     <<"1", "_", "0">>}

DecimalArgs ==
    {NoneArg} \cup {StrArg(s) : s \in SeqsUpTo(NumberChars, MaxNumLen) \cup DecimalWords}

IntArgs ==
    {NoneArg} \cup {StrArg(s) : s \in SeqsUpTo({"1", "0", "^2", "x", " ", "\""}, MaxNumLen)}

Years == {<<"2", "0", "2", "4">>, <<"2", "0", "2", "3">>, <<"0", "0", "0", "0">>}
Months == {<<"1">>, <<"0", "2">>, <<"1", "1">>, <<"1", "3">>, <<"0", "0">>}
Days == {<<"5">>, <<"1">>, <<"2", "9">>, <<"3", "0">>, <<"3", "1">>, <<"0", "0">>,
         <<" ", "5">>}

DateWords ==
    {<<>>, <<" ">>, <<"N", "A">>, <<" ", "2", "0", "2", "4", "0", "1", "0", "5", " ">>,
     <<"2", "0", "2", "4", "-", "0", "1", "-", "0", "5">>, <<"2", "0", "2", "4">>,
     <<"2", "0", "2", "4", "0", "1", "0", "1", "1">>}

DateArgs ==
    {NoneArg} \cup {StrArg(y \o m \o d) : y \in Years, m \in Months, d \in Days}
       \cup {StrArg(s) : s \in DateWords}

TsDates == {<<"2", "0", "2", "4", "-", "0", "1", "-", "0", "5">>,
            <<"2", "0", "2", "4", "-", "1", "-", "5">>,
            <<"2", "0", "2", "4", "-", "0", "2", "-", "3", "0">>,
            <<"2", "0", "2", "4", "0", "1", "0", "5">>}
TsSeparators == {<<>>, <<" ">>, <<" ", " ">>, <<"T">>, <<"t">>, <<"_">>}
TsTimes == {<<>>, <<"1", "0", ":", "0", "0", ":", "0", "0">>, <<"1", ":", "2", ":", "3">>,
            <<"1", "0", ":", "0", "0", ":", "6", "0">>,
            <<"2", "5", ":", "0", "0", ":", "0", "0">>, <<"1", "0", ":", "0", "0">>}

TsArgs ==
    {NoneArg} \cup {StrArg(d \o p \o t) : d \in TsDates, p \in TsSeparators, t \in TsTimes}
       \cup {StrArg(<<>>), StrArg(<<" ">>)}

CoerceUnchanged ==
    UNCHANGED <<src, env, db, tx, txAborted, pc, run, dbBefore, err, indexWarned,
                discovered, Locals, ing, qry, lit>>

\* a loader calls to_decimal on a field
call_to_decimal ==
    /\ co.fn = ""
    /\ \E a \in DecimalArgs : co' = [fn |-> "to_decimal", arg |-> a, out |-> to_decimal(a)]
    /\ CoerceUnchanged

\* a loader calls to_int on a field
call_to_int ==
    /\ co.fn = ""
    /\ \E a \in IntArgs : co' = [fn |-> "to_int", arg |-> a, out |-> to_int_or_none(a)]
    /\ CoerceUnchanged

\* a loader calls parse_date_yyyymmdd on a field
call_parse_date_yyyymmdd ==
    /\ co.fn = ""
    /\ \E a \in DateArgs :
          co' = [fn |-> "parse_date_yyyymmdd", arg |-> a, out |-> parse_date_yyyymmdd(a)]
    /\ CoerceUnchanged

\* a loader calls parse_ts on a field
call_parse_ts ==
    /\ co.fn = ""
    /\ \E a \in TsArgs : co' = [fn |-> "parse_ts", arg |-> a, out |-> parse_ts(a)]
    /\ CoerceUnchanged

\* the caller takes the value and goes on to its next field
coerce_return ==
    /\ co.fn # ""
    /\ ~co.out.raises
    /\ co' = CoIdle
    /\ CoerceUnchanged

InitCoerce ==
    /\ src = Dir({})
    /\ env = GoodEnv
    /\ db = EmptyStore
    /\ InitRun

NextCoerce ==
    \/ call_to_decimal
    \/ call_to_int
    \/ call_parse_date_yyyymmdd
    \/ call_parse_ts
    \/ coerce_return

SpecCoerce == InitCoerce /\ [][NextCoerce]_vars

---------------------------------------------------------------------------
(* The vector literal: to_pgvector_literal and its re-parsing *)

\* A float is held by its decimal expansion to twelve places:
\* (-1)^neg * (ip + hi / 10^6 + lo / 10^12), with 0 <= hi, lo < 10^6.
Float(neg, ip, hi, lo) == [neg |-> neg, ip |-> ip, hi |-> hi, lo |-> lo]

\* str(d) of one decimal digit
DigitChar(d) == <<"0", "1", "2", "3", "4", "5", "6", "7", "8", "9">>[d + 1]

\* str(n) of a natural number
RECURSIVE DigitsOf(_)
DigitsOf(n) ==
    IF n < 10 THEN <<DigitChar(n)>>
    ELSE DigitsOf(n \div 10) \o <<DigitChar(n % 10)>>

\* the last w decimal digits of n, with leading zeros
RECURSIVE ZeroPad(_, _)
ZeroPad(n, w) ==
    IF w = 0 THEN <<>>
    ELSE ZeroPad(n \div 10, w - 1) \o <<DigitChar(n % 10)>>

\* sep.join(parts)
RECURSIVE Join(_, _)
Join(parts, sep) ==
    IF parts = <<>> THEN <<>>
    ELSE IF Len(parts) = 1 THEN parts[1]
    ELSE parts[1] \o sep \o Join(Tail(parts), sep)

\* f"{x:.10f}" that drops the digits after the tenth place
FormatFloat10_Truncating(x, up) ==
    (IF x.neg THEN <<"-">> ELSE <<>>) \o DigitsOf(x.ip) \o <<".">>
        \o ZeroPad(x.hi, 6) \o ZeroPad(x.lo \div 100, 4)

\* f"{float(x):.10f}": the sign, the integer part, a point and ten fractional
\* digits, rounded to the nearest; a value whose expansion ends in ...50 lies
\* within one binary ulp of the half-way point, and the side the double falls on
\* (up) decides its last digit
FormatFloat10(x, up) ==
    LET r == x.lo % 100
        q == (x.lo \div 100) + (IF r > 50 \/ (r = 50 /\ up) THEN 1 ELSE 0)
        h == x.hi + (q \div 10000)
    IN  (IF x.neg THEN <<"-">> ELSE <<>>) \o DigitsOf(x.ip + (h \div 1000000))
            \o <<".">> \o ZeroPad(h % 1000000, 6) \o ZeroPad(q % 10000, 4)

\* "[" + ",".join(f"{float(x):.10f}" for x in vec) + "]"
to_pgvector_literal(vec, ups) ==
    <<"[">> \o Join([i \in 1..Len(vec) |-> FormatFloat10(vec[i], ups[i])], <<",">>)
        \o <<"]">>

\* s.split(c)
RECURSIVE SplitOn(_, _)
SplitOn(s, c) ==
    IF \E i \in 1..Len(s) : s[i] = c
    THEN LET i == CHOOSE j \in 1..Len(s) :
                      s[j] = c /\ \A k \in 1..(j - 1) : s[k] # c
         IN  <<SubSeq(s, 1, i - 1)>> \o SplitOn(SubSeq(s, i + 1, Len(s)), c)
    ELSE <<s>>

\* s.strip("[]")
RECURSIVE StripBrackets(_)
StripBrackets(s) ==
    IF s # <<>> /\ Head(s) \in {"[", "]"} THEN StripBrackets(Tail(s))
    ELSE IF s # <<>> /\ s[Len(s)] \in {"[", "]"}
    THEN StripBrackets(SubSeq(s, 1, Len(s) - 1))
    ELSE s

\* float(s) of a decimal numeral: surrounding whitespace is dropped, then an
\* optional sign, the digits before the point and the digits after it; ok is
\* FALSE where float raises ValueError. Digits after the twelfth place are below
\* the expansion kept here.
ParseFloat(s) ==
    LET t == Strip(s)
        neg == t # <<>> /\ Head(t) = "-"
        u == IF t # <<>> /\ Head(t) \in {"-", "+"} THEN Tail(t) ELSE t
        parts == SplitOn(u, ".")
        ipart == parts[1]
        fpart == IF Len(parts) = 2 THEN parts[2] ELSE <<>>
        ok == /\ Len(parts) <= 2
              /\ ipart \o fpart # <<>>
              /\ \A i \in 1..Len(ipart) : ipart[i] \in Digits
              /\ \A i \in 1..Len(fpart) : fpart[i] \in Digits
        f12 == SubSeq(fpart \o <<"0", "0", "0", "0", "0", "0",
                                 "0", "0", "0", "0", "0", "0">>, 1, 12)
    IN  IF ok
        THEN [ok |-> TRUE, neg |-> neg, ip |-> IntOf(ipart),
              hi |-> IntOf(SubSeq(f12, 1, 6)), lo |-> IntOf(SubSeq(f12, 7, 12))]
        ELSE [ok |-> FALSE, neg |-> FALSE, ip |-> 0, hi |-> 0, lo |-> 0]

\* the stored literal read back into a list of numbers
ParseLiteral(text) ==
    LET s == StripBrackets(text)
        parts == SplitOn(s, ",")
    IN  IF s = <<>> THEN <<>>
        ELSE [i \in 1..Len(parts) |-> ParseFloat(parts[i])]

\* The elements serialized: zero and negative zero, values with fewer and with
\* more than ten places, values half-way between two neighbours, values whose
\* rounding carries into the next digit, the sixth place and the integer part,
\* and values of one or more
FloatValues ==
    {Float(FALSE, 0, 0, 0),                \* 0.0
     Float(TRUE, 0, 0, 0),                 \* -0.0
     Float(FALSE, 0, 100000, 0),           \* 0.1
     Float(FALSE, 0, 200000, 0),           \* 0.2
     Float(TRUE, 0, 500000, 0),            \* -0.5
     Float(FALSE, 0, 333333, 333333),      \* 1/3
     Float(FALSE, 0, 666666, 666667),      \* 2/3
     Float(FALSE, 0, 0, 10),               \* 1e-11
     Float(TRUE, 0, 0, 40),                \* -4e-11
     Float(FALSE, 0, 0, 50),               \* 5e-11
     Float(FALSE, 0, 0, 250),              \* 2.5e-10
     Float(FALSE, 0, 123456, 999950),      \* 0.12345699995
     Float(FALSE, 0, 999999, 999960),      \* 0.99999999996
     Float(TRUE, 0, 999999, 999950),       \* -0.99999999995
     Float(FALSE, 1, 0, 0),                \* 1.0
     Float(FALSE, 123, 700000, 1)}         \* 123.700000000001

\* the longest vector serialized
MaxVecLen == 2

Vectors == SeqsUpTo(FloatValues, MaxVecLen)

LitUnchanged ==
    UNCHANGED <<src, env, db, tx, txAborted, pc, run, dbBefore, err, indexWarned,
                discovered, Locals, ing, qry, co>>

\* a loader serializes an embedding
call_to_pgvector_literal ==
    /\ lit.pc = "idle"
    /\ \E vec \in Vectors, ups \in [1..MaxVecLen -> BOOLEAN] :
          lit' = [pc |-> "literal", vec |-> vec,
                  text |-> to_pgvector_literal(vec, ups), parsed |-> <<>>]
    /\ LitUnchanged

\* the literal is read back
parse_literal ==
    /\ lit.pc = "literal"
    /\ lit' = [lit EXCEPT !.pc = "parsed", !.parsed = ParseLiteral(lit.text)]
    /\ LitUnchanged

\* the caller goes on to its next vector
literal_return ==
    /\ lit.pc = "parsed"
    /\ lit' = LitIdle
    /\ LitUnchanged

InitLit ==
    /\ src = Dir({})
    /\ env = GoodEnv
    /\ db = EmptyStore
    /\ InitRun

NextLit ==
    \/ call_to_pgvector_literal
    \/ parse_literal
    \/ literal_return

SpecLit == InitLit /\ [][NextLit]_vars

Init ==
    /\ \/ /\ src \in BudgetDirs \cup RareDirs \cup NameDirs \cup EncDirs
          /\ env = GoodEnv
          /\ db \in {EmptyStore, ForeignStore}
       \/ /\ src \in ConvDirs \cup AyudaDirs \cup TenderDirs
          /\ env = GoodEnv
          /\ db = EmptyStore
       \/ /\ src \in EnvDirs
          /\ env \in Envs
          /\ db = EmptyStore
    /\ InitRun

Next ==
    \/ Discover
    \/ CreateAndSeed
    \/ load_gastos
    \/ load_ingresos
    \/ load_convocatoria
    \/ load_ayuda_begin
    \/ load_ayuda_row
    \/ load_ayuda_insert
    \/ row_loop_raises
    \/ load_licitacion_begin
    \/ load_licitacion_row
    \/ load_licitacion_insert
    \/ load_licitacion_index
    \/ commit
    \/ Rerun

Spec == Init /\ [][Next]_vars

---------------------------------------------------------------------------
(* Properties *)

RunEnded == pc \in {"done", "failed", "exit"}

\* main() reached conn.commit() and the server committed
RunCommitted == pc = "done" /\ ~txAborted

\* the rows of the files of a category, in the order the loader reads them
RECURSIVE RowsOfAll(_)
RowsOfAll(names) ==
    IF names = <<>> THEN <<>> ELSE RowsOf(Head(names)) \o RowsOfAll(Tail(names))

SrcRows(cat) == RowsOfAll(discovered[cat])

Rows(store, t) == store[t].rows

\* the store holds what every loader was given to load
AllLoaded(store) ==
    /\ \A t \in TableNames : store[t].exists
    /\ Rows(store, "UNIVERSIDAD") = <<SeedRow>>
    /\ Len(Rows(store, "PRESUPUESTO_GASTOS")) = Len(SrcRows("gastos"))
    /\ Len(Rows(store, "PRESUPUESTO_INGRESOS")) = Len(SrcRows("ingresos"))
    /\ Col(store["CONVOCATORIA_AYUDA"], "code")
          = {Strip(SrcRows("convocatorias")[i].conv) :
                i \in 1..Len(SrcRows("convocatorias"))}
    /\ Len(Rows(store, "AYUDA"))
          = Cardinality({i \in 1..Len(SrcRows("ayudas")) :
                Strip(SrcRows("ayudas")[i].conv)
                   \in Col(store["CONVOCATORIA_AYUDA"], "code") \ {<<>>}})
    /\ Len(Rows(store, "LICITACION"))
          = (IF discovered.licitaciones = <<>> THEN 0 ELSE cnt.total_kept)

\* C1: a run is atomic: until main() has committed the store is the one the
\* run started from, whatever the run has created or inserted so far and
\* however it ended; once it has committed, the tables, the institution and
\* every loader's rows are all there.
C1_AtomicRun ==
    /\ ~RunCommitted => db = dbBefore
    /\ RunCommitted => AllLoaded(db)

\* C1: a run that raised in the tender loader, after the budget loader had
\* inserted, and left an earlier store as it was
C1_Witness ==
    /\ pc = "failed"
    /\ err = "NotNullViolation(identificador)"
    /\ discovered.gastos # <<>>
    /\ db = ForeignStore

\* C2: after a committed run every AYUDA row names a CONVOCATORIA_AYUDA row,
\* and no run is ended by an award's reference to a missing call, whatever
\* the grant files hold.
C2_AwardHasCall ==
    /\ RunCommitted =>
          \A i \in 1..Len(Rows(db, "AYUDA")) :
             Rows(db, "AYUDA")[i].conv \in Col(db["CONVOCATORIA_AYUDA"], "code")
    /\ err # "ForeignKeyViolation(cod_convocatoria_ayuda)"

\* C2: a committed run that stored an award although another award of the
\* source named a call that does not exist
C2_Witness ==
    /\ RunCommitted
    /\ Rows(db, "AYUDA") # <<>>
    /\ \E i \in 1..Len(SrcRows("ayudas")) :
          /\ Strip(SrcRows("ayudas")[i].conv) # <<>>
          /\ Strip(SrcRows("ayudas")[i].conv)
                \notin Col(db["CONVOCATORIA_AYUDA"], "code")

\* C3: after a committed run no two LICITACION rows share an identifier and
\* every LICITACION row carries the target institution's tax id.
C3_TenderUnique ==
    RunCommitted =>
       /\ \A i, j \in 1..Len(Rows(db, "LICITACION")) :
             i # j => Rows(db, "LICITACION")[i].id # Rows(db, "LICITACION")[j].id
       /\ \A i \in 1..Len(Rows(db, "LICITACION")) :
             Rows(db, "LICITACION")[i].nif = UAM_NIF

\* C3: a committed run that stored a tender and skipped both a row of another
\* contracting body and a repeated identifier
C3_Witness ==
    /\ RunCommitted
    /\ Rows(db, "LICITACION") # <<>>
    /\ discovered.licitaciones # <<>>
    /\ cnt.total_skipped_nif > 0
    /\ cnt.total_skipped_dups > 0

\* C4: only the first target-institution row carrying a tender identifier is
\* kept: the rows kept for a file never repeat an identifier, among
\* themselves or against the rows already inserted, and no run is ended by a
\* repeated identifier.
C4_FirstOccurrenceOnly ==
    /\ err # "UniqueViolation"
    /\ pc = "licitaciones_rows" =>
          \A i \in 1..Len(rows) :
             ~rows[i].id.isNull =>
                /\ rows[i].id \notin Col(tx["LICITACION"], "id")
                /\ \A j \in 1..Len(rows) : j # i => rows[j].id # rows[i].id

\* C5: when main() is run again on the same directory, the store after the
\* second run is the store after the first, table by table and row by row.
C5_Idempotent == (run >= 2 /\ RunEnded) => db = dbBefore

\* C5: a second run that committed a store holding budget lines and tenders
C5_Witness ==
    /\ run = 2
    /\ RunCommitted
    /\ Rows(db, "PRESUPUESTO_GASTOS") # <<>>
    /\ Rows(db, "LICITACION") # <<>>

\* C6: the grant-award loader takes its set of valid keys from
\* CONVOCATORIA_AYUDA when it starts; a row whose stripped reference is
\* non-empty and in that set is kept, and only `kept` grows; a row whose
\* stripped reference is empty is not kept and only `skipped_empty` grows; a
\* row whose reference is non-empty and not in the set is not kept and only
\* `skipped_missing_fk` grows; the kept rows are what the file's insert adds.
C6_AwardFilter ==
    [][/\ (pc = "ayudas" /\ pc' = "ayudas_rows") =>
             valid_conv' = Col(tx["CONVOCATORIA_AYUDA"], "code")
       /\ (pc = "ayudas_rows" /\ ri' = ri + 1) =>
             LET ref == Strip(RowsOf(discovered.ayudas[fi])[ri].conv) IN
             /\ (ref # <<>> /\ ref \in valid_conv) =>
                   /\ Len(rows') = Len(rows) + 1
                   /\ SubSeq(rows', 1, Len(rows)) = rows
                   /\ rows'[Len(rows')].conv = ref
                   /\ cnt' = [cnt EXCEPT !.kept = @ + 1]
             /\ ref = <<>> =>
                   /\ rows' = rows
                   /\ cnt' = [cnt EXCEPT !.skipped_empty = @ + 1]
             /\ (ref # <<>> /\ ref \notin valid_conv) =>
                   /\ rows' = rows
                   /\ cnt' = [cnt EXCEPT !.skipped_missing_fk = @ + 1]
       /\ (pc = "ayudas_rows" /\ ri > Len(RowsOf(discovered.ayudas[fi]))
             /\ pc' # "failed") =>
             Rows(tx', "AYUDA") = Rows(tx, "AYUDA") \o rows
      ]_vars

\* C6: in one file a row with an empty reference was skipped and counted, and
\* another row was kept
C6_Witness ==
    /\ pc = "ayudas_rows"
    /\ cnt.skipped_empty = 1
    /\ cnt.skipped_missing_fk = 0
    /\ cnt.kept = 1
    /\ Len(rows) = 1

\* C7: no run is ended by a field that cannot be parsed: neither by the
\* coercion raising nor by the null it returns.
C7_CoercionNeverAborts ==
    err \notin {"ValueError", "NotNullViolation(identificador)"}

\* C8: with the embedding model loaded and working, a stored tender has a
\* NULL embedding exactly when its combined text is empty.
C8_NullEmbeddingIffEmptyText ==
    (model /\ env.embedOk) =>
       \A i \in 1..Len(Rows(tx, "LICITACION")) :
          LET r == Rows(tx, "LICITACION")[i] IN
          r.embedding.isNull <=> (CombinedText(r.objeto, r.descripcion) = <<>>)

\* C9: when ensure_table(width) returns, LICITACION exists and its vector
\* column has the requested width; and if the column had another width
\* before, no embedding stored before is left.
C9_EnsureWidth ==
    [][(ing.pc = "ensure" /\ ing'.pc = "insert") =>
          /\ db'["LICITACION"].exists
          /\ db'["LICITACION"].width = ing.dim
          /\ (db["LICITACION"].exists /\ db["LICITACION"].width \notin {0, ing.dim}) =>
                \A i \in 1..Len(Rows(db', "LICITACION")) :
                   Rows(db', "LICITACION")[i].embedding.isNull
      ]_vars

\* C10: a run in which the index could not be built still ends committed,
\* with every kept tender row in the store.
C10_IndexFailureTolerated ==
    (indexWarned /\ RunEnded) =>
       /\ pc = "done"
       /\ db["LICITACION"].exists
       /\ Len(Rows(db, "LICITACION")) = cnt.total_kept

\* the tender loader has run past its first statement and the run has not
\* restarted
InTenderLoader ==
    pc \in {"licitaciones_rows", "licitaciones_index", "commit", "done"}
       /\ discovered.licitaciones # <<>>

\* C11: when the embedding model cannot be loaded or the batch call raises,
\* the tender loader raises nothing, every tender row it has inserted has a
\* NULL embedding, and once it has finished the table holds every kept row.
C11_DegradesToNullEmbeddings ==
    ~(env.model /\ env.embedOk) =>
       /\ err = ""
       /\ pc # "failed"
       /\ InTenderLoader =>
             \A i \in 1..Len(Rows(tx, "LICITACION")) :
                Rows(tx, "LICITACION")[i].embedding.isNull
       /\ (InTenderLoader /\ pc \in {"commit", "done"}) =>
             Len(Rows(tx, "LICITACION")) = cnt.total_kept

\* C11: a run whose batch embedding call raised committed the kept rows of two
\* tender files
C11_Witness ==
    /\ RunCommitted
    /\ env.model
    /\ ~env.embedOk
    /\ Len(discovered.licitaciones) = 2
    /\ Len(Rows(db, "LICITACION")) = 2

\* C12: no exception leaves the reader: a file that is not UTF-8 is read
\* under the next encoding and the load goes on.
C12_ReaderFallsBack == err # "RuntimeError"

Range(f) == {f[i] : i \in DOMAIN f}

HasBothWords(name) ==
    /\ EndsWith(Chars(name), EXT_CSV)
    /\ Contains(Lower(Chars(name)), P_AYUDAS)
    /\ Contains(Lower(Chars(name)), P_CONV)

\* C13: once discovery has run on a directory, every .csv file of it whose
\* lower-cased name contains both "ayudas" and "conv" is among the grant-call
\* files, and none is among the grant-award files.
C13_BothWordsIsGrantCall ==
    (pc # "main" /\ IsDir(src)) =>
       \A f \in src.files :
          HasBothWords(f.name) =>
             /\ f.name \in Range(discovered.convocatorias)
             /\ f.name \notin Range(discovered.ayudas)

\* C14: discovery itself fails exactly when the directory does not exist; on
\* a directory with no matching file it returns the empty manifest, and it is
\* main() that then ends the run.
C14_DiscoveryOutcome ==
    pc # "main" =>
       /\ ~src.exists <=> err = "SystemExit(discover_csv_files)"
       /\ ~src.exists => pc = "exit"
       /\ (src.exists /\ pc = "exit") =>
             /\ err = "SystemExit(main)"
             /\ discovered = NoneDiscovered
             /\ \A f \in src.files :
                   EndsWith(Chars(f.name), EXT_CSV) => Category(f.name) = ""
       /\ (src.exists /\ pc # "exit") =>
             /\ err # "SystemExit(main)"
             /\ TotalFiles(discovered) > 0
             /\ \A c \in DOMAIN discovered : \A n \in Range(discovered[c]) :
                   \E f \in src.files : f.name = n

\* C14: discovery has failed on a directory that does not exist
C14_Witness == pc = "exit" /\ ~src.exists /\ run = 1

\* the first source row of the grant-call files that carries the call code
FirstWithCode(code) ==
    LET rs == SrcRows("convocatorias")
        i == CHOOSE k \in 1..Len(rs) :
                /\ Strip(rs[k].conv) = code
                /\ \A j \in 1..(k - 1) : Strip(rs[j].conv) # code
    IN  rs[i]

\* C20: after a committed run, for every call code of the grant-call files
\* exactly one CONVOCATORIA_AYUDA row has it, and that row holds the values of
\* the first source row with the code; and load_convocatoria is never ended
\* by a repeated code.
C20_FirstCallWins ==
    /\ [](RunCommitted =>
            \A i \in 1..Len(SrcRows("convocatorias")) :
               LET code == Strip(SrcRows("convocatorias")[i].conv)
                   held == {j \in 1..Len(Rows(db, "CONVOCATORIA_AYUDA")) :
                               Rows(db, "CONVOCATORIA_AYUDA")[j].code = code}
               IN  /\ Cardinality(held) = 1
                   /\ \A j \in held :
                         Rows(db, "CONVOCATORIA_AYUDA")[j]
                            = ConvTuple(FirstWithCode(code)))
    /\ [][(pc = "convocatorias" /\ pc' = "failed") => err' # "UniqueViolation"]_vars

\* C20: a committed run whose grant-call files held two rows with one code and
\* different names, in two files
C20_Witness ==
    /\ RunCommitted
    /\ Len(discovered.convocatorias) = 2
    /\ \E i, j \in 1..Len(SrcRows("convocatorias")) :
          /\ i < j
          /\ Strip(SrcRows("convocatorias")[i].conv)
                = Strip(SrcRows("convocatorias")[j].conv)
          /\ SrcRows("convocatorias")[i].nombre # SrcRows("convocatorias")[j].nombre
          /\ RowsOf(discovered.convocatorias[1]) = <<SrcRows("convocatorias")[i]>>

\* C15: a query the store accepts prints Min(K, number of rows) rows, in
\* non-decreasing distance, none of them farther than a row it left out, and
\* ends without error.
C15_TopK ==
    (qry.pc = "done"
        /\ qry.err \notin {"UndefinedTable", "UndefinedColumn(embedding)",
                           "DataException(different vector dimensions)"}) =>
       LET table == db["LICITACION"]
           d(i) == Distance(qry.q, table.rows[i].embedding)
           out == qry.printed
       IN  /\ qry.err = ""
           /\ Len(out) = Min(qry.k, Len(table.rows))
           /\ \A i \in 1..(Len(out) - 1) : DistLeq(out[i].dist, out[i + 1].dist)
           /\ \A j \in 1..Len(table.rows) :
                 (\A i \in 1..Len(out) : out[i].id # table.rows[j].id) =>
                    \A i \in 1..Len(out) : DistLeq(out[i].dist, d(j))

\* C16: a query whose embedding width differs from the width of the stored
\* vector column ends with the dimension error and prints no row.
C16_DimensionMismatch ==
    (qry.pc = "done" /\ db["LICITACION"].exists /\ db["LICITACION"].width # 0
        /\ qry.dim # db["LICITACION"].width) =>
       /\ qry.err = "DataException(different vector dimensions)"
       /\ qry.printed = <<>>

RECURSIVE Pow10(_)
Pow10(n) == IF n = 0 THEN 1 ELSE 10 * Pow10(n - 1)

\* the numbers a and b, each worth num * 10^exp, are equal
SameNumber(a, b) ==
    LET e == IF a.exp < b.exp THEN a.exp ELSE b.exp
    IN  a.num * Pow10(a.exp - e) = b.num * Pow10(b.exp - e)

\* the number a plain decimal string denotes, its marker being "," or ".":
\* digits, at most one marker, at least one digit
PlainDecimal(s) ==
    LET marks == {i \in 1..Len(s) : s[i] \in {",", "."}}
        at == IF marks = {} THEN Len(s) + 1 ELSE SetMin(marks)
        ip == SubSeq(s, 1, at - 1)
        fp == SubSeq(s, at + 1, Len(s))
    IN  IF Cardinality(marks) <= 1 /\ AllDigits(ip) /\ AllDigits(fp) /\ ip \o fp # <<>>
        THEN [ok |-> TRUE, num |-> IntOf(ip \o fp), exp |-> 0 - Len(fp)]
        ELSE [ok |-> FALSE, num |-> 0, exp |-> 0]

\* C17: to_decimal of a plain decimal string, its marker "," or ".", is the
\* number the string denotes, and to_decimal of an empty string, of "NA" and
\* of "NULL", in any letter case, is null.
C17_DecimalEitherMarker ==
    (co.fn = "to_decimal" /\ ~co.arg.isNone) =>
       LET s == Strip(co.arg.s)
       IN  /\ (s = <<>> \/ Upper(s) \in {<<"N", "A">>, <<"N", "U", "L", "L">>}) =>
                 co.out = NullOut
           /\ PlainDecimal(s).ok =>
                 /\ ~co.out.raises /\ ~co.out.isNull
                 /\ co.out.val.kind = "num"
                 /\ SameNumber(co.out.val, PlainDecimal(s))

\* the date an 8-digit string YYYYMMDD denotes, ok FALSE when the string is
\* not 8 digits or denotes no day of the calendar
CompactDate(s) ==
    LET y == IntOf(SubSeq(s, 1, 4))
        m == IntOf(SubSeq(s, 5, 6))
        d == IntOf(SubSeq(s, 7, 8))
    IN  IF Len(s) = 8 /\ AllDigits(s)
        THEN [ok |-> y >= 1 /\ m \in 1..12 /\ d >= 1 /\ d <= DaysIn(y, m),
              val |-> [y |-> y, m |-> m, d |-> d]]
        ELSE [ok |-> FALSE, val |-> [none |-> TRUE]]

\* C18: parse_date_yyyymmdd returns the date of a string of 8 digits that
\* denotes a real date, and null, without raising, for every other string.
C18_CompactDateOnly ==
    co.fn = "parse_date_yyyymmdd" =>
       co.out = (IF ~co.arg.isNone /\ CompactDate(Strip(co.arg.s)).ok
                 THEN ValueOut(CompactDate(Strip(co.arg.s)).val)
                 ELSE NullOut)

\* C19: a call of to_decimal, to_int, parse_date_yyyymmdd or parse_ts, on a
\* string or on a missing value, returns a value or null and never raises.
C19_CoercionsTotal ==
    co.fn \in {"to_decimal", "to_int", "parse_date_yyyymmdd", "parse_ts"} =>
       ~co.out.raises

\* the place of a step of main() in the order institution seed, expenditure,
\* revenue, grant calls, grant awards, tenders, commit
StageRank(p) ==
    CASE p = "main" -> 0
      [] p = "create" -> 1
      [] p = "gastos" -> 2
      [] p = "ingresos" -> 3
      [] p = "convocatorias" -> 4
      [] p \in {"ayudas", "ayudas_rows"} -> 5
      [] p \in {"licitaciones", "licitaciones_rows", "licitaciones_index"} -> 6
      [] p = "commit" -> 7
      [] OTHER -> 8

\* C22: within a run the loaders follow one another in the order institution
\* seed, expenditure, revenue, grant calls, grant awards, tenders; load_ayuda
\* takes its snapshot of grant-call keys when the key of every row of every
\* grant-call file is stored; and a step that adds a row to a fact table starts
\* from a store that holds the seeded institution.
C22_LoaderOrder ==
    /\ [][(pc' # pc /\ pc' \notin {"main", "failed", "exit"}) =>
             StageRank(pc') >= StageRank(pc)]_vars
    /\ [][(pc = "ayudas" /\ pc' = "ayudas_rows") =>
             \A i \in 1..Len(SrcRows("convocatorias")) :
                Strip(SrcRows("convocatorias")[i].conv) \in valid_conv']_vars
    /\ [][\A t \in TableNames \ {"UNIVERSIDAD"} :
             Len(tx'[t].rows) > Len(tx[t].rows) =>
                SeedRow \in Range(tx["UNIVERSIDAD"].rows)]_vars

\* C22: the tender loader is at work after two grant-call files, the snapshot
\* of both their keys, the grant awards and the expenditure went in
C22_Witness ==
    /\ pc = "licitaciones_rows"
    /\ Len(discovered.convocatorias) = 2
    /\ Cardinality(valid_conv) = 2
    /\ tx["PRESUPUESTO_GASTOS"].rows # <<>>
    /\ tx["AYUDA"].rows # <<>>
    /\ tx["UNIVERSIDAD"].rows = <<SeedRow>>

\* C23: whenever a loader of a fact table with an institution code
\* (expenditure, revenue, grant call, grant award) is about to insert the rows
\* of a file, the institution code of each of these rows is stored in
\* UNIVERSIDAD.
C23_InstitutionKnownAtInsert ==
    /\ \A stage \in {"gastos", "ingresos", "convocatorias"} :
          pc = stage =>
             \A i \in 1..Len(RowsOf(discovered[stage][fi])) :
                CodUniv(RowsOf(discovered[stage][fi])[i])
                   \in Col(tx["UNIVERSIDAD"], "cod")
    /\ pc = "ayudas_rows" =>
          \A i \in 1..Len(rows) : rows[i].cod \in Col(tx["UNIVERSIDAD"], "cod")

\* C27: a run whose source directory is missing, or in which no file was
\* discovered, never goes past discovery, and when it exits there the store,
\* the transaction and the connection are those the run started with: no
\* table was dropped, created or inserted into.
C27_AbortBeforeWrites ==
    /\ pc \notin {"main", "exit"} =>
          /\ src.exists
          /\ \E cat \in DOMAIN discovered : discovered[cat] # <<>>
    /\ pc = "exit" => (db = dbBefore /\ tx = dbBefore /\ ~txAborted)

\* C27: a run on a directory with no source file has exited, and the tender
\* table an earlier program left in the store is still there with its row
C27_Witness ==
    /\ pc = "exit"
    /\ src.exists
    /\ err = "SystemExit(main)"
    /\ db = ForeignStore

\* C25: in the manifest discovery returned, no file is listed twice, in one
\* category or in two, and the files of each category are in ascending order.
C25_ManifestDisjointSorted ==
    /\ \A c1, c2 \in DOMAIN discovered :
          \A i \in 1..Len(discovered[c1]), j \in 1..Len(discovered[c2]) :
             (c1 # c2 \/ i # j) => discovered[c1][i] # discovered[c2][j]
    /\ \A c \in DOMAIN discovered :
          \A i, j \in 1..Len(discovered[c]) :
             i < j => StrLess(Chars(discovered[c][i]), Chars(discovered[c][j]))

\* C25: a manifest with two grant-call files, whose order depends on the case
\* of their first letter, and files of three other categories
C25_Witness ==
    /\ discovered.convocatorias = <<F_CONV_1, F_CONV_2>>
    /\ discovered.gastos # <<>>
    /\ discovered.ayudas # <<>>
    /\ discovered.licitaciones # <<>>

\* C30: in load_licitacion every row read so far from the current file is
\* counted once, as kept, skipped for its institution or skipped as a
\* duplicate, and kept counts the rows collected; when the loader has ended
\* the three totals add up to the rows of all the tender files and the total
\* kept is the number of rows inserted; and an identifier becomes seen only
\* through a row of the target institution that is kept.
C30_TenderCounts ==
    /\ [](pc = "licitaciones_rows" =>
             /\ cnt.kept + cnt.skipped_nif + cnt.skipped_dups = ri - 1
             /\ cnt.kept = Len(rows))
    /\ []((pc = "commit" /\ discovered.licitaciones # <<>>) =>
             /\ cnt.total_kept + cnt.total_skipped_nif + cnt.total_skipped_dups
                   = Len(SrcRows("licitaciones"))
             /\ cnt.total_kept = Len(tx["LICITACION"].rows))
    /\ [][(pc = "licitaciones_rows" /\ seen_ids' # seen_ids) =>
             LET r == RowsOf(discovered.licitaciones[fi])[ri]
             IN  /\ Strip(r.nif) = UAM_NIF
                 /\ seen_ids' = seen_ids \cup {r.ident}
                 /\ cnt'.kept = cnt.kept + 1]_vars

\* C30: the tender loader has ended after two files that held a row of
\* another institution, a duplicate and a kept row with the identifier of the
\* row of the other institution
C30_Witness ==
    /\ pc = "commit"
    /\ Len(discovered.licitaciones) = 2
    /\ cnt.total_skipped_nif = 1
    /\ cnt.total_skipped_dups = 1
    /\ cnt.total_kept = 1
    /\ \E i, j \in 1..Len(SrcRows("licitaciones")) :
          /\ i < j
          /\ Strip(SrcRows("licitaciones")[i].nif) # UAM_NIF
          /\ Strip(SrcRows("licitaciones")[j].nif) = UAM_NIF
          /\ SrcRows("licitaciones")[i].ident = SrcRows("licitaciones")[j].ident
          /\ tx["LICITACION"].rows[1].id = to_int(SrcRows("licitaciones")[j].ident).val

\* C29: in load_licitacion the i-th row collected from a file goes with the
\* i-th text handed to the embedding function, which is that row's combined
\* text, and every tender the run has stored with an embedding carries the
\* embedding of its own combined text.
C29_EmbeddingOfOwnText ==
    /\ pc = "licitaciones_rows" =>
          /\ Len(texts_for_embedding) = Len(rows)
          /\ \A i \in 1..Len(rows) :
                texts_for_embedding[i] = CombinedText(rows[i].objeto, rows[i].descripcion)
    /\ pc \in {"licitaciones_rows", "licitaciones_index", "commit"} =>
          \A i \in 1..Len(tx["LICITACION"].rows) :
             LET r == tx["LICITACION"].rows[i]
             IN  r.embedding.isNull
                    \/ r.embedding = Embedding(MODEL_DIM, CombinedText(r.objeto, r.descripcion))

\* C29: a file with a row of another institution and two kept rows, one of
\* them with no text, was stored, each kept row with an embedding of its own
C29_Witness ==
    /\ pc = "commit"
    /\ cnt.total_skipped_nif = 1
    /\ Len(tx["LICITACION"].rows) = 2
    /\ ~tx["LICITACION"].rows[1].embedding.isNull
    /\ ~tx["LICITACION"].rows[2].embedding.isNull
    /\ tx["LICITACION"].rows[1].embedding # tx["LICITACION"].rows[2].embedding
    /\ \E i \in 1..2 : tx["LICITACION"].rows[i].embedding.of = <<>>

\* the tables the CREATE TABLE statement of table t references
RefsOf(t) ==
    (CHOOSE c \in Range(DDL_CREATES) : c.name = t).refs

\* C26: DDL_SQL drops no table before a table that references it and creates
\* no table before a table it references; where main() calls create_tables the
\* call succeeds and leaves the six tables empty, and a second call from the
\* store it leaves gives that store again.
C26_SchemaOrder ==
    /\ \A i, j \in 1..Len(DDL_DROPS) :
          i < j => DDL_DROPS[i] \notin RefsOf(DDL_DROPS[j])
    /\ \A i \in 1..Len(DDL_CREATES) :
          \A r \in DDL_CREATES[i].refs :
             \E j \in 1..(i - 1) : DDL_CREATES[j].name = r
    /\ pc = "create" =>
          LET c == create_tables(tx)
          IN  /\ c.ok
              /\ \A t \in TableNames :
                    /\ c.store[t].exists
                    /\ c.store[t].rows = <<>>
                    /\ c.store[t].refs = RefsOf(t)
              /\ create_tables(c.store) = c

\* C26: main() is about to call create_tables on the store an earlier run
\* loaded, with grant awards that reference grant calls, and tenders
C26_Witness ==
    /\ pc = "create"
    /\ run = 2
    /\ tx["AYUDA"].rows # <<>>
    /\ tx["CONVOCATORIA_AYUDA"].rows # <<>>
    /\ tx["LICITACION"].rows # <<>>

\* the step adds to the LICITACION table of store s (s2 after the step) a row
\* that carries an embedding
AddsEmbeddedRow(s, s2) ==
    /\ Len(s2["LICITACION"].rows) > Len(s["LICITACION"].rows)
    /\ \E i \in (Len(s["LICITACION"].rows) + 1)..Len(s2["LICITACION"].rows) :
          ~s2["LICITACION"].rows[i].embedding.isNull

\* C24: a step that inserts rows carrying embeddings, in the transaction of
\* the loader (a rollback apart) or directly in the store, starts where the
\* embeddings of the batch are computed and ensure_table has been called with
\* their dimension.
C24_EnsureBeforeInsert ==
    [][((pc' \notin {"failed", "done"} /\ AddsEmbeddedRow(tx, tx'))
           \/ (pc' = pc /\ AddsEmbeddedRow(db, db'))) =>
          ing.pc = "insert"]_vars

\* C28: ensure_table called with the width the vector column of LICITACION
\* already has leaves the table, its column, its index and every stored
\* embedding as they were.
C28_SameWidthUntouched ==
    [][(ing.pc = "ensure" /\ db["LICITACION"].exists
          /\ db["LICITACION"].width = ing.dim) =>
          db'["LICITACION"] = db["LICITACION"]]_vars

\* the characters of one serialized element: an optional sign, digits, a point
\* and exactly ten digits
IsFixed10(s) ==
    LET t == IF s # <<>> /\ Head(s) = "-" THEN Tail(s) ELSE s
        n == Len(t)
    IN  /\ n >= 12
        /\ t[n - 10] = "."
        /\ \A i \in 1..n : i # n - 10 => t[i] \in Digits

\* the numbers a and b differ by at most half a unit of the tenth decimal place
WithinHalfUnit10(a, b) ==
    LET sa == IF a.neg THEN -1 ELSE 1
        sb == IF b.neg THEN -1 ELSE 1
        d6 == sa * (a.ip * 1000000 + a.hi) - sb * (b.ip * 1000000 + b.hi)
        d12 == d6 * 1000000 + (sa * a.lo - sb * b.lo)
    IN  /\ d6 \in {-1, 0, 1}
        /\ d12 >= -50
        /\ d12 <= 50

\* C21: the literal of a vector is "[" , the elements separated by "," and "]",
\* each element with exactly ten fractional digits and no space anywhere, and
\* the literal read back has as many elements as the vector, in the same order,
\* each within half a unit of the tenth decimal place of the element serialized.
C21_LiteralRoundTrip ==
    /\ lit.pc # "idle" =>
          LET n == Len(lit.text)
              inner == SubSeq(lit.text, 2, n - 1)
              parts == SplitOn(inner, ",")
          IN  /\ n >= 2
              /\ lit.text[1] = "["
              /\ lit.text[n] = "]"
              /\ \A i \in 1..n : lit.text[i] # " "
              /\ IF lit.vec = <<>> THEN inner = <<>>
                 ELSE /\ Len(parts) = Len(lit.vec)
                      /\ \A i \in 1..Len(parts) : IsFixed10(parts[i])
    /\ lit.pc = "parsed" =>
          /\ Len(lit.parsed) = Len(lit.vec)
          /\ \A i \in 1..Len(lit.vec) :
                /\ lit.parsed[i].ok
                /\ WithinHalfUnit10(lit.parsed[i], lit.vec[i])

\* [0.1, 0.2] has been serialized as "[0.1000000000,0.2000000000]" and read back
C21_Witness ==
    /\ lit.pc = "parsed"
    /\ lit.vec = <<Float(FALSE, 0, 100000, 0), Float(FALSE, 0, 200000, 0)>>
    /\ lit.text = <<"[", "0", ".", "1", "0", "0", "0", "0", "0", "0", "0", "0", "0",
                    ",", "0", ".", "2", "0", "0", "0", "0", "0", "0", "0", "0", "0",
                    "]">>
    /\ lit.parsed[1].hi = 100000
    /\ lit.parsed[2].hi = 200000

=============================================================================
